---- MODULE Spec2Model ----
(***************************************************************************)
(* Protocol layer of chatly-sdk: the offline MessageQueue, the ChatSDK     *)
(* orchestrator's send / replay logic over a TransportAdapter, and the     *)
(* WebSocketClient connection state machine.                               *)
(*                                                                         *)
(* The specifications share the variables:                                 *)
(*   SpecQ      the MessageQueue class driven by arbitrary calls           *)
(*   Spec       ChatSDK with its queue over a transport adapter            *)
(*   SpecRetry  the same, over a longer clock                              *)
(*   SpecRetryFair the same, with the event loop's scheduling              *)
(*   SpecOverlap the same, with overlapping replays and the sends counted   *)
(*   SpecWS     WebSocketClient with its sockets and timers                *)
(*   SpecApp    ChatSDK.sendMessage from its first line, with the stores   *)
(*   SpecE2E    the functions of crypto/ on arguments drawn at the start   *)
(*   SpecCrypto ChatSession and GroupSession under any sequence of calls   *)
(*   SpecChat   ChatSDK with its stores, sendMessage and decryptMessage    *)
(*   SpecMedia  encryptMedia and decryptMedia of the two session classes   *)
(*   SpecReaders ChatSDK and a 1:1 session: who reads an envelope           *)
(***************************************************************************)
EXTENDS Integers, Sequences, FiniteSets, TLC

VARIABLES
    queue,            \* MessageQueue.queue: Map<string, QueuedMessage> in insertion order
    now,              \* Date.now(), in ms
    op,               \* the call or callback that ran last, with its arguments
    emitted,          \* events / handler calls made by the step that ran last
    wire,             \* transport.send / ws.send calls made by the step that ran last
    connectionState,  \* the transport's connectionState
    calls,            \* ChatSDK.sendMessage: position of the call that created each envelope
    replays,          \* ChatSDK.processMessageQueue: the running invocations
    reconnectAttempts,\* WebSocketClient.reconnectAttempts
    shouldReconnect,  \* WebSocketClient.shouldReconnect
    currentUserId,    \* WebSocketClient.currentUserId
    ws,               \* WebSocketClient.ws: a socket slot, or null
    reconnectTimer,   \* WebSocketClient.reconnectTimer
    heartbeatTimer,   \* WebSocketClient.heartbeatTimer
    sockets,          \* the WebSocket objects created by doConnect that can still fire events
    reconnectAwait,   \* WebSocketClient.reconnect: a call is at its await of disconnect()
    streak,           \* history: connection attempts that failed in a row, and since when
    currentUser,      \* ChatSDK.currentUser: a user (in SpecApp by its id), or null
    messageStore,     \* the ids of the messages the message store holds
    groupStore,       \* the groups the group store holds
    session,          \* the ChatSession or GroupSession the application holds, or null
    sends             \* history: transport.send calls per envelope, where they are counted

vars == <<queue, now, op, emitted, wire, connectionState, calls, replays,
          reconnectAttempts, shouldReconnect, currentUserId, ws, reconnectTimer,
          heartbeatTimer, sockets, reconnectAwait, streak,
          currentUser, messageStore, groupStore, session, sends>>

appvars == <<currentUser, messageStore, groupStore, session>>
qvars   == <<queue, now>>
sdkvars == <<calls, replays, sends>>
wsvars  == <<reconnectAttempts, shouldReconnect, currentUserId, ws, reconnectTimer,
             heartbeatTimer, sockets, reconnectAwait, streak>>

-----------------------------------------------------------------------------
(* Program constants (constants.ts) and model bounds                        *)

MESSAGE_RETRY_ATTEMPTS == 3
MESSAGE_RETRY_DELAY == 2000
RECONNECT_MAX_ATTEMPTS == 5
RECONNECT_BASE_DELAY == 1000
RECONNECT_MAX_DELAY == 30000

\* constructor parameters of MessageQueue
maxSize == 2
maxRetries == MESSAGE_RETRY_ATTEMPTS
retryDelay == MESSAGE_RETRY_DELAY

\* the clock advances in steps of half a retry delay, MaxTicks times at most
MaxTicks == 2
TickMs == retryDelay \div 2
StartTime == TickMs

\* envelope ids (generateUUID: never the empty string)
MessageIds == {"m1", "m2", "m3", "m4"}
Errors == {"NetworkError"}

\* an optional value (undefined / null, or a value)
None == <<>>
Some(x) == <<x>>

-----------------------------------------------------------------------------
(* MessageQueue (utils/messageQueue.ts)                                     *)

\* JavaScript truthiness of a map key / of an optional number
TruthyKey(k) == k # ""
Falsy(n) == n = None \/ n[1] = 0

Ids(q) == {q[i].id : i \in 1..Len(q)}
Has(q, id) == id \in Ids(q)
IndexOf(q, id) == CHOOSE i \in 1..Len(q) : q[i].id = id
Get(q, id) == q[IndexOf(q, id)]

\* Map.delete: the other entries keep their order
MapDelete(q, id) == SelectSeq(q, LAMBDA e : e.id # id)

\* Map.set: an existing key keeps its place, a new key goes last
MapSet(q, id, e) ==
    IF Has(q, id) THEN [i \in 1..Len(q) |-> IF q[i].id = id THEN e ELSE q[i]]
    ELSE Append(q, e)

NewEntry(id) ==
    [id |-> id, status |-> "pending", attempts |-> 0,
     lastAttempt |-> None, error |-> None]

\* mutants of EvictOldest: a full queue that gives up nothing, or its newest entry
EvictOldest_Nothing(q) == q
EvictOldest_Newest(q) ==
    IF Len(q) > 0 /\ TruthyKey(q[Len(q)].id) THEN MapDelete(q, q[Len(q)].id) ELSE q

\* the entry a full queue gives up: the first key of the map, if it is truthy
EvictOldest(q) ==
    IF Len(q) > 0 /\ TruthyKey(q[1].id) THEN MapDelete(q, q[1].id) ELSE q

enqueue(q, id) ==
    LET q1 == IF Len(q) >= maxSize THEN EvictOldest(q) ELSE q
    IN  MapSet(q1, id, NewEntry(id))

\* mutant of markSent: the entry is marked sent and stays in the map
markSent_Keeps(q, id) ==
    IF Has(q, id) THEN MapSet(q, id, [Get(q, id) EXCEPT !.status = "sent"]) ELSE q

markSent(q, id) ==
    IF Has(q, id) THEN MapDelete(q, id) ELSE q

\* mutant of FailedEntry: the attempt is counted but the status is left as it was
FailedEntry_StatusKept(e, err, t) ==
    [e EXCEPT !.error = Some(err), !.attempts = e.attempts + 1, !.lastAttempt = Some(t)]

\* the entry after a failed attempt at time t
FailedEntry(e, err, t) ==
    [e EXCEPT !.status = "failed", !.error = Some(err),
              !.attempts = e.attempts + 1, !.lastAttempt = Some(t)]

\* mutant of markFailed: the entry is dropped one attempt late
markFailed_Late(q, id, err, t) ==
    IF Has(q, id)
    THEN LET e == FailedEntry(Get(q, id), err, t)
         IN  IF e.attempts > maxRetries THEN MapDelete(q, id) ELSE MapSet(q, id, e)
    ELSE q

markFailed(q, id, err, t) ==
    IF Has(q, id)
    THEN LET e == FailedEntry(Get(q, id), err, t)
         IN  IF e.attempts >= maxRetries THEN MapDelete(q, id) ELSE MapSet(q, id, e)
    ELSE q

\* mutant of IsRetryable: the delay must be exceeded, not reached
IsRetryable_Strict(e, t) ==
    /\ e.status = "failed"
    /\ e.attempts < maxRetries
    /\ (Falsy(e.lastAttempt) \/ t - e.lastAttempt[1] > retryDelay)

IsRetryable(e, t) ==
    /\ e.status = "failed"
    /\ e.attempts < maxRetries
    /\ (Falsy(e.lastAttempt) \/ t - e.lastAttempt[1] >= retryDelay)

getRetryableMessages(q, t) == SelectSeq(q, LAMBDA e : IsRetryable(e, t))

getPendingMessages(q) == SelectSeq(q, LAMBDA e : e.status = "pending")

\* the specified meaning of "due for a retry" (not the code's filter): a failed entry
\* below the retry ceiling whose last attempt is at least the retry delay before t
DueForRetry(e, t) ==
    /\ e.status = "failed"
    /\ e.attempts < maxRetries
    /\ e.lastAttempt # None
    /\ t - e.lastAttempt[1] >= MESSAGE_RETRY_DELAY

remove(q, id) == MapDelete(q, id)

clear(q) == <<>>

-----------------------------------------------------------------------------
(* SpecQ: a MessageQueue under any sequence of calls                        *)

\* a ChatSDK just constructed: no current user, empty stores, no session
NoApp == currentUser = None /\ messageStore = {} /\ groupStore = {} /\ session = None

\* the history of sends is kept by the specifications that start it at zero
NoCount == sends = None

Unstarted ==
    /\ NoApp
    /\ connectionState = "disconnected" /\ calls = [m \in MessageIds |-> "none"]
    /\ replays = <<>> /\ reconnectAttempts = 0 /\ shouldReconnect = TRUE
    /\ currentUserId = None /\ ws = None /\ reconnectTimer = None
    /\ heartbeatTimer = FALSE /\ sockets = <<>> /\ reconnectAwait = FALSE
    /\ streak = [since |-> "none", fails |-> 0]
    /\ emitted = <<>> /\ wire = <<>>

Idle == Unstarted /\ NoCount

InitQ ==
    /\ queue = <<>> /\ now = StartTime
    /\ op = [name |-> "new"]
    /\ Idle

QFrame == UNCHANGED <<emitted, wire, connectionState, sdkvars, wsvars, appvars>>

Enqueue(id) ==
    /\ queue' = enqueue(queue, id)
    /\ op' = [name |-> "enqueue", id |-> id, removed |-> Ids(queue) \ Ids(queue')]
    /\ UNCHANGED now /\ QFrame

MarkSent(id) ==
    /\ queue' = markSent(queue, id)
    /\ op' = [name |-> "markSent", id |-> id, removed |-> Ids(queue) \ Ids(queue')]
    /\ UNCHANGED now /\ QFrame

MarkFailed(id, err) ==
    /\ queue' = markFailed(queue, id, err, now)
    /\ op' = [name |-> "markFailed", id |-> id, error |-> err, removed |-> Ids(queue) \ Ids(queue')]
    /\ UNCHANGED now /\ QFrame

Remove(id) ==
    /\ queue' = remove(queue, id)
    /\ op' = [name |-> "remove", id |-> id, removed |-> Ids(queue) \ Ids(queue')]
    /\ UNCHANGED now /\ QFrame

Clear ==
    /\ queue' = clear(queue)
    /\ op' = [name |-> "clear", removed |-> Ids(queue) \ Ids(queue')]
    /\ UNCHANGED now /\ QFrame

\* time passes
Tick ==
    /\ now + TickMs <= StartTime + MaxTicks * TickMs
    /\ now' = now + TickMs
    /\ op' = [name |-> "tick"]
    /\ emitted' = <<>> /\ wire' = <<>>
    /\ UNCHANGED <<queue, connectionState, sdkvars, wsvars, appvars>>

NextQ ==
    \/ \E id \in MessageIds : Enqueue(id)
    \/ \E id \in MessageIds : MarkSent(id)
    \/ \E id \in MessageIds, err \in Errors : MarkFailed(id, err)
    \/ \E id \in MessageIds : Remove(id)
    \/ Clear
    \/ Tick

SpecQ == InitQ /\ [][NextQ]_vars

-----------------------------------------------------------------------------
(* ChatSDK (index.ts) over a TransportAdapter (transport/adapters.ts)       *)

ConnectionStates == {"disconnected", "connecting", "connected", "reconnecting", "failed"}

\* processMessageQueue invocations that may be awaiting a send at the same time
MaxReplays == 1

\* the envelopes sendMessage creates, and the states the transport reports
\* (InMemoryTransport: connect, disconnect, reconnect)
SentIds == {"m1", "m2", "m3"}
ReportedStates == {"disconnected", "connecting", "connected"}

\* the error a rejected transport.send carries
SendError == "NetworkError"

\* EVENTS
MessageSent(id) == [type |-> "message:sent", id |-> id]
MessageFailed(id, err) == [type |-> "message:failed", id |-> id, error |-> err]
ConnectionStateChanged(state) == [type |-> "connection:state", state |-> state]

KeysOf(q) == [i \in 1..Len(q) |-> q[i].id]
Range(f) == {f[i] : i \in 1..Len(f)}
RemoveAt(f, i) == [j \in 1..(Len(f) - 1) |-> IF j < i THEN f[j] ELSE f[j + 1]]

\* TransportAdapter.isConnected
isConnected == connectionState = "connected"

\* mutant of ToSend: only the entries never attempted are replayed
ToSend_PendingOnly(q, t) == KeysOf(getPendingMessages(q))

\* mutant of ToSend: the entries to replay are taken in the order of the map
ToSend_InsertionOrder(q, t) ==
    KeysOf(SelectSeq(q, LAMBDA e : e.status = "pending" \/ IsRetryable(e, t)))

\* processMessageQueue: toSend = [...pending, ...retryable]
ToSend(q, t) == KeysOf(getPendingMessages(q)) \o KeysOf(getRetryableMessages(q, t))

\* the specified replay set: the entries pending, or failed and due for a retry, at t
DueIds(q, t) ==
    {q[i].id : i \in {j \in 1..Len(q) : q[j].status = "pending" \/ DueForRetry(q[j], t)}}

\* mutant of QueueAfterDispatch: the envelope is queued before it is sent, too
QueueAfterDispatch_Always(q, id, connected) == enqueue(q, id)

\* sendMessage, the branch on isConnected(): the queue it leaves, the sends it makes
QueueAfterDispatch(q, id, connected) == IF connected THEN q ELSE enqueue(q, id)
WireAfterDispatch(id, connected) == IF connected THEN <<id>> ELSE <<>>

\* mutant of QueueAfterFailedSend: the envelope is queued but not marked failed
QueueAfterFailedSend_Unmarked(q, id, err, t) == enqueue(q, id)

\* sendMessage, the catch around transport.send: enqueue, then markFailed
QueueAfterFailedSend(q, id, err, t) == markFailed(enqueue(q, id), id, err, t)

\* history: every envelope handed to transport.send by the step is counted
SendsCounted ==
    sends' = IF sends = None THEN None
             ELSE [id \in DOMAIN sends |->
                     sends[id] + Cardinality({i \in 1..Len(wire') : wire'[i] = id})]

SdkFrame == UNCHANGED <<wsvars, appvars>> /\ SendsCounted

\* sendMessage up to the envelope being stored: the user and input checks,
\* session.encrypt (a fresh id) and messageStore.create
SendMessageBegin(id) ==
    /\ calls[id] = "none"
    /\ calls' = [calls EXCEPT ![id] = "stored"]
    /\ op' = [name |-> "sendMessageBegin", id |-> id]
    /\ emitted' = <<>> /\ wire' = <<>>
    /\ UNCHANGED <<queue, now, connectionState, replays>> /\ SdkFrame

\* sendMessage after the store: send if connected (and await it), else enqueue and return
SendMessageDispatch(id) ==
    /\ calls[id] = "stored"
    /\ queue' = QueueAfterDispatch(queue, id, isConnected)
    /\ wire' = WireAfterDispatch(id, isConnected)
    /\ calls' = [calls EXCEPT ![id] = IF isConnected THEN "awaiting" ELSE "queued"]
    /\ op' = [name |-> "sendMessage", id |-> id, connected |-> isConnected,
              removed |-> Ids(queue) \ Ids(queue')]
    /\ emitted' = <<>>
    /\ UNCHANGED <<now, connectionState, replays>> /\ SdkFrame

\* sendMessage: transport.send resolved
SendMessageSent(id) ==
    /\ calls[id] = "awaiting"
    /\ calls' = [calls EXCEPT ![id] = "sent"]
    /\ emitted' = <<MessageSent(id)>>
    /\ op' = [name |-> "sendSettled", id |-> id, outcome |-> "ok", returned |-> TRUE]
    /\ wire' = <<>>
    /\ UNCHANGED <<queue, now, connectionState, replays>> /\ SdkFrame

\* sendMessage: transport.send rejected
SendMessageFailed(id) ==
    /\ calls[id] = "awaiting"
    /\ queue' = QueueAfterFailedSend(queue, id, SendError, now)
    /\ calls' = [calls EXCEPT ![id] = "failed"]
    /\ emitted' = <<MessageFailed(id, SendError)>>
    /\ op' = [name |-> "sendSettled", id |-> id, outcome |-> "fail", returned |-> TRUE,
              removed |-> Ids(queue) \ Ids(queue')]
    /\ wire' = <<>>
    /\ UNCHANGED <<now, connectionState, replays>> /\ SdkFrame

\* the transport reports a connection state: the handler emits it and, on
\* connected, runs processMessageQueue up to its first await; at most `limit`
\* invocations of processMessageQueue are awaiting a send at the same time
StateChange(state, limit) ==
    /\ connectionState' = state
    /\ LET toSend == ToSend(queue, now) IN
       IF state = "connected" /\ Len(toSend) > 0
       THEN /\ Len(replays) < limit
            /\ replays' = Append(replays, [toSend |-> toSend, idx |-> 1,
                                           due |-> DueIds(queue, now),
                                           sent |-> {toSend[1]}])
            /\ wire' = <<toSend[1]>>
       ELSE /\ replays' = replays
            /\ wire' = <<>>
    /\ emitted' = <<ConnectionStateChanged(state)>>
    /\ op' = [name |-> "stateChange", state |-> state,
              replay |-> state = "connected" /\ Len(ToSend(queue, now)) > 0]
    /\ UNCHANGED <<queue, now, calls>> /\ SdkFrame

OnConnectionStateChange(state) == StateChange(state, MaxReplays)

\* mutant of ReplayFailureEvents: nothing is emitted for an entry that was dropped
ReplayFailureEvents_NotOnDrop(q, id, err) ==
    IF Has(q, id) THEN <<MessageFailed(id, err)>> ELSE <<>>

\* processMessageQueue, the catch around transport.send: after markFailed has left
\* the queue q, message:failed is emitted for the envelope, kept or dropped
ReplayFailureEvents(q, id, err) == <<MessageFailed(id, err)>>

\* processMessageQueue: the awaited send of replay r settles; the entry is marked,
\* the event emitted, and the next entry of the snapshot is sent, if any
ReplaySettle(r, outcome) ==
    /\ r \in 1..Len(replays)
    /\ LET rp == replays[r]
           id == rp.toSend[rp.idx]
           done == rp.idx = Len(rp.toSend)
           next == [rp EXCEPT !.idx = rp.idx + 1,
                              !.sent = rp.sent \cup {rp.toSend[rp.idx + 1]}]
       IN /\ queue' = IF outcome = "ok" THEN markSent(queue, id)
                       ELSE markFailed(queue, id, SendError, now)
          /\ emitted' = IF outcome = "ok" THEN <<MessageSent(id)>>
                         ELSE ReplayFailureEvents(queue', id, SendError)
          /\ replays' = IF done THEN RemoveAt(replays, r)
                         ELSE [replays EXCEPT ![r] = next]
          /\ wire' = IF done THEN <<>> ELSE <<rp.toSend[rp.idx + 1]>>
          /\ op' = [name |-> "replaySettled", id |-> id, outcome |-> outcome,
                    done |-> done, due |-> rp.due, sent |-> rp.sent,
                    removed |-> Ids(queue) \ Ids(queue')]
    /\ UNCHANGED <<now, connectionState, calls>> /\ SdkFrame

Init ==
    /\ queue = <<>> /\ now = StartTime
    /\ op = [name |-> "new"]
    /\ Idle

Next ==
    \/ \E id \in SentIds : SendMessageBegin(id)
    \/ \E id \in SentIds : SendMessageDispatch(id)
    \/ \E id \in SentIds : SendMessageSent(id)
    \/ \E id \in SentIds : SendMessageFailed(id)
    \/ \E state \in ReportedStates : OnConnectionStateChange(state)
    \/ \E r \in 1..MaxReplays, outcome \in {"ok", "fail"} : ReplaySettle(r, outcome)
    \/ Tick

Spec == Init /\ [][Next]_vars

\* the same program over two envelopes and a clock that runs long enough for an
\* entry to be retried until it is dropped (two retry delays after its first failure)
MaxRetryTicks == 4
RetryIds == {"m1", "m2"}

TickRetry ==
    /\ now + TickMs <= StartTime + MaxRetryTicks * TickMs
    /\ now' = now + TickMs
    /\ op' = [name |-> "tick"]
    /\ emitted' = <<>> /\ wire' = <<>>
    /\ UNCHANGED <<queue, connectionState, sdkvars, wsvars, appvars>>

NextRetry ==
    \/ \E id \in RetryIds : SendMessageBegin(id)
    \/ \E id \in RetryIds : SendMessageDispatch(id)
    \/ \E id \in RetryIds : SendMessageSent(id)
    \/ \E id \in RetryIds : SendMessageFailed(id)
    \/ \E state \in ReportedStates : OnConnectionStateChange(state)
    \/ \E r \in 1..MaxReplays, outcome \in {"ok", "fail"} : ReplaySettle(r, outcome)
    \/ TickRetry

SpecRetry == Init /\ [][NextRetry]_vars

\* SpecRetry with the scheduling of the event loop: the clock advances, a call
\* of sendMessage that has stored its envelope goes on, and an awaited
\* transport.send settles; calls by the application and reports of the
\* transport are under no obligation to happen
Scheduling ==
    /\ WF_vars(TickRetry)
    /\ \A id \in RetryIds :
          /\ WF_vars(SendMessageDispatch(id))
          /\ WF_vars(SendMessageSent(id) \/ SendMessageFailed(id))
    /\ WF_vars(\E r \in 1..MaxReplays, outcome \in {"ok", "fail"} : ReplaySettle(r, outcome))

SpecRetryFair == SpecRetry /\ Scheduling

\* the same program again, with the transport reporting connected while an
\* earlier processMessageQueue is still awaiting a send (InMemoryTransport:
\* connect() called twice), and with the sends of each envelope counted
MaxOverlap == 2

OnConnectionStateChangeOverlapping(state) == StateChange(state, MaxOverlap)

InitOverlap ==
    /\ queue = <<>> /\ now = StartTime
    /\ op = [name |-> "new"]
    /\ Unstarted
    /\ sends = [id \in RetryIds |-> 0]

NextOverlap ==
    \/ \E id \in RetryIds : SendMessageBegin(id)
    \/ \E id \in RetryIds : SendMessageDispatch(id)
    \/ \E id \in RetryIds : SendMessageSent(id)
    \/ \E id \in RetryIds : SendMessageFailed(id)
    \/ \E state \in ReportedStates : OnConnectionStateChangeOverlapping(state)
    \/ \E r \in 1..MaxOverlap, outcome \in {"ok", "fail"} : ReplaySettle(r, outcome)
    \/ TickRetry

SpecOverlap == InitOverlap /\ [][NextOverlap]_vars

-----------------------------------------------------------------------------
(* WebSocketClient (transport/websocketClient.ts)                           *)

\* WebSocket objects that can be alive (not yet closed, or with a timer) at once
MaxSockets == 2

UserIds == {"alice"}

FreeSocket == [rs |-> "free", timeout |-> FALSE, opened |-> FALSE, errored |-> FALSE]
NewSocket == [rs |-> "connecting", timeout |-> TRUE, opened |-> FALSE, errored |-> FALSE]

\* a closed socket whose connect timeout is gone fires no more events
Retire(sk) == IF sk.rs = "closed" /\ ~sk.timeout THEN FreeSocket ELSE sk

\* handler calls: stateHandler, errorHandler, messageHandler
StateEvent(state) == [type |-> "state", state |-> state]
ErrorEvent(msg) == [type |-> "error", error |-> msg]
MessageEvent == [type |-> "message"]

RECURSIVE Pow2(_)
Pow2(n) == IF n <= 0 THEN 1 ELSE 2 * Pow2(n - 1)
Min(a, b) == IF a <= b THEN a ELSE b

\* the fields of the client and what the running callback has emitted and sent
Client ==
    [connectionState |-> connectionState, reconnectAttempts |-> reconnectAttempts,
     shouldReconnect |-> shouldReconnect, currentUserId |-> currentUserId,
     ws |-> ws, reconnectTimer |-> reconnectTimer, heartbeatTimer |-> heartbeatTimer,
     sockets |-> sockets, emitted |-> <<>>, wire |-> <<>>]

Install(c) ==
    /\ connectionState' = c.connectionState
    /\ reconnectAttempts' = c.reconnectAttempts
    /\ shouldReconnect' = c.shouldReconnect
    /\ currentUserId' = c.currentUserId
    /\ ws' = c.ws
    /\ reconnectTimer' = c.reconnectTimer
    /\ heartbeatTimer' = c.heartbeatTimer
    /\ sockets' = [i \in 1..Len(c.sockets) |-> Retire(c.sockets[i])]
    /\ emitted' = c.emitted
    /\ wire' = c.wire

updateState(c, newState) ==
    IF c.connectionState # newState
    THEN [c EXCEPT !.connectionState = newState,
                   !.emitted = Append(@, StateEvent(newState))]
    ELSE c

handleError(c, msg) == [c EXCEPT !.emitted = Append(@, ErrorEvent(msg))]

clearReconnectTimer(c) == [c EXCEPT !.reconnectTimer = None]

stopHeartbeat(c) == [c EXCEPT !.heartbeatTimer = FALSE]

startHeartbeat(c) == [stopHeartbeat(c) EXCEPT !.heartbeatTimer = TRUE]

\* WebSocket.close(): a socket that is not closed starts closing
CloseSocket(sk) ==
    IF sk.rs \in {"connecting", "open"} THEN [sk EXCEPT !.rs = "closing"] ELSE sk

\* this.ws?.close()
closeWs(c) ==
    IF c.ws = None THEN c
    ELSE [c EXCEPT !.sockets[c.ws[1]] = CloseSocket(@)]

\* Math.random() * 1000, in whole milliseconds: the least and the greatest value
Jitters == {0, 999}

\* mutant of ReconnectDelay: the delay grows linearly
ReconnectDelay_Linear(attempts) ==
    Min(RECONNECT_BASE_DELAY * attempts, RECONNECT_MAX_DELAY)

ReconnectDelay(attempts) ==
    Min(RECONNECT_BASE_DELAY * Pow2(attempts - 1), RECONNECT_MAX_DELAY)

\* mutant of scheduleReconnect: the attempt counter is not incremented
scheduleReconnect_NoCount(c, jitter) ==
    LET c1 == clearReconnectTimer(c)
        c2 == updateState(c1, "reconnecting")
    IN  [c2 EXCEPT !.reconnectTimer =
            Some([delay |-> ReconnectDelay(c1.reconnectAttempts + 1) + jitter, fired |-> FALSE])]

scheduleReconnect(c, jitter) ==
    LET c1 == clearReconnectTimer(c)
        c2 == [c1 EXCEPT !.reconnectAttempts = @ + 1]
        c3 == updateState(c2, "reconnecting")
    IN  [c3 EXCEPT !.reconnectTimer =
            Some([delay |-> ReconnectDelay(c2.reconnectAttempts) + jitter, fired |-> FALSE])]

HasFreeSlot(c) == \E i \in 1..Len(c.sockets) : c.sockets[i].rs = "free"
FreeSlot(c) == CHOOSE i \in 1..Len(c.sockets) :
                  /\ c.sockets[i].rs = "free"
                  /\ \A j \in 1..(i - 1) : c.sockets[j].rs # "free"

\* doConnect creates a socket unless an attempt is already under way
Creates(c) == c.connectionState # "connecting"

doConnect(c) ==
    IF c.connectionState = "connecting" THEN c
    ELSE LET c1 == updateState(c, "connecting")
             slot == FreeSlot(c1)
         IN  [c1 EXCEPT !.ws = Some(slot), !.sockets[slot] = NewSocket]

\* mutant of onopen: the attempt counter is not reset
onopen_KeepsCount(c, s) ==
    LET c1 == [c EXCEPT !.sockets[s].timeout = FALSE]
        c2 == updateState(c1, "connected")
    IN  startHeartbeat(c2)

\* ws.onopen of socket s
onopen(c, s) ==
    LET c1 == [c EXCEPT !.sockets[s].timeout = FALSE, !.reconnectAttempts = 0]
        c2 == updateState(c1, "connected")
    IN  startHeartbeat(c2)

\* ws.onerror of socket s
onerror(c, s) ==
    handleError([c EXCEPT !.sockets[s].timeout = FALSE], "WebSocket error")

\* mutant of onclose: the attempt limit is off by one
onclose_OneMore(c, s, jitter) ==
    LET c1 == stopHeartbeat([c EXCEPT !.sockets[s].timeout = FALSE]) IN
    IF c1.connectionState # "disconnected"
    THEN LET c2 == updateState(c1, "disconnected") IN
         IF c2.shouldReconnect /\ c2.reconnectAttempts <= RECONNECT_MAX_ATTEMPTS
         THEN scheduleReconnect(c2, jitter)
         ELSE IF c2.reconnectAttempts > RECONNECT_MAX_ATTEMPTS
              THEN handleError(updateState(c2, "failed"),
                               "Max reconnection attempts exceeded")
              ELSE c2
    ELSE c1

\* ws.onclose of socket s
onclose(c, s, jitter) ==
    LET c1 == stopHeartbeat([c EXCEPT !.sockets[s].timeout = FALSE]) IN
    IF c1.connectionState # "disconnected"
    THEN LET c2 == updateState(c1, "disconnected") IN
         IF c2.shouldReconnect /\ c2.reconnectAttempts < RECONNECT_MAX_ATTEMPTS
         THEN scheduleReconnect(c2, jitter)
         ELSE IF c2.reconnectAttempts >= RECONNECT_MAX_ATTEMPTS
              THEN handleError(updateState(c2, "failed"),
                               "Max reconnection attempts exceeded")
              ELSE c2
    ELSE c1

\* the sockets on which a handler has called close(): c before it, d after it
ClosedBy(c, d) ==
    {i \in 1..Len(c.sockets) : c.sockets[i].rs # "closing" /\ d.sockets[i].rs = "closing"}

\* mutant of ontimeout: the error is reported but the socket is not closed
ontimeout_NoClose(c, s) ==
    LET c1 == [c EXCEPT !.sockets[s].timeout = FALSE] IN
    IF c1.connectionState = "connecting"
    THEN handleError(c1, "Connection timeout")
    ELSE c1

\* the connectionTimeout callback of socket s
ontimeout(c, s) ==
    LET c1 == [c EXCEPT !.sockets[s].timeout = FALSE] IN
    IF c1.connectionState = "connecting"
    THEN handleError(closeWs(c1), "Connection timeout")
    ELSE c1

\* mutant of disconnect: the reconnect timer is left running
disconnect_KeepsTimer(c) ==
    LET c1 == stopHeartbeat([c EXCEPT !.shouldReconnect = FALSE])
        c2 == IF c1.ws # None THEN [closeWs(c1) EXCEPT !.ws = None] ELSE c1
    IN  updateState(c2, "disconnected")

disconnect(c) ==
    LET c1 == stopHeartbeat(clearReconnectTimer([c EXCEPT !.shouldReconnect = FALSE]))
        c2 == IF c1.ws # None THEN [closeWs(c1) EXCEPT !.ws = None] ELSE c1
    IN  updateState(c2, "disconnected")

\* mutant of wsIsConnected: only the socket is looked at, not the state
wsIsConnected_SocketOnly(c) ==
    /\ c.ws # None
    /\ c.sockets[c.ws[1]].rs = "open"

\* connect(userId)
connect(c, u) ==
    doConnect([c EXCEPT !.currentUserId = Some(u), !.shouldReconnect = TRUE])

\* the fields that decide how later events are handled
ViewOf(c) ==
    [connectionState |-> c.connectionState, reconnectAttempts |-> c.reconnectAttempts,
     shouldReconnect |-> c.shouldReconnect, reconnectTimer |-> c.reconnectTimer,
     heartbeatTimer |-> c.heartbeatTimer]

\* what disconnect() followed by connect(currentUserId) leaves, called on c
DisconnectConnect(c) ==
    IF c.currentUserId # None /\ HasFreeSlot(c)
    THEN Some(ViewOf(connect(disconnect(c), c.currentUserId[1])))
    ELSE None

\* WebSocketClient.isConnected
wsIsConnected(c) ==
    /\ c.connectionState = "connected"
    /\ c.ws # None
    /\ c.sockets[c.ws[1]].rs = "open"

LiveSockets == {i \in 1..Len(sockets) : sockets[i].rs \in {"connecting", "open", "closing"}}
TimerPending == reconnectTimer # None /\ ~reconnectTimer[1].fired

\* history of the attempts that failed in a row: it starts when connect() is called on
\* an idle client (disconnected, counter 0, no socket) or when the one socket of a
\* connected client closes; any other call of the API, or an open, ends it
NoStreak == [since |-> "none", fails |-> 0]
IdleClient ==
    /\ connectionState = "disconnected" /\ reconnectAttempts = 0
    /\ LiveSockets = {} /\ ~TimerPending /\ ~reconnectAwait
    /\ \A i \in 1..Len(sockets) : sockets[i].rs = "free"

WsFrame == UNCHANGED <<queue, now, calls, replays, sends, appvars>>

\* events of the event loop wait for a reconnect() that is at its await
Connect(u) ==
    /\ Creates(Client) => HasFreeSlot(Client)
    /\ Install(connect(Client, u))
    /\ streak' = IF IdleClient THEN [since |-> "connect", fails |-> 0] ELSE NoStreak
    /\ op' = [name |-> "connect"]
    /\ UNCHANGED reconnectAwait /\ WsFrame

Disconnect ==
    /\ Install(disconnect(Client))
    /\ streak' = NoStreak
    /\ op' = [name |-> "disconnect", from |-> connectionState, hadTimer |-> TimerPending]
    /\ UNCHANGED reconnectAwait /\ WsFrame

\* reconnect() up to its await of disconnect()
ReconnectBegin ==
    /\ ~reconnectAwait
    /\ Install(disconnect([Client EXCEPT !.reconnectAttempts = 0,
                                          !.shouldReconnect = TRUE]))
    /\ reconnectAwait' = TRUE
    /\ streak' = NoStreak
    /\ op' = [name |-> "reconnect", expected |-> DisconnectConnect(Client)]
    /\ WsFrame

\* reconnect() after the await: doConnect, or the error for a missing user id
ReconnectResume ==
    /\ reconnectAwait
    /\ (currentUserId # None /\ Creates(Client)) => HasFreeSlot(Client)
    /\ Install(IF currentUserId # None THEN doConnect(Client) ELSE Client)
    /\ reconnectAwait' = FALSE
    /\ op' = [name |-> "reconnectResume", threw |-> currentUserId = None,
              expected |-> IF op.name = "reconnect" THEN op.expected ELSE None]
    /\ UNCHANGED streak /\ WsFrame

\* send(message): throws unless connected, else writes the envelope to the socket;
\* fault: ws.send (or JSON.stringify) throws, which send rethrows as a NetworkError
WsSend(fault) ==
    /\ Install([Client EXCEPT !.wire = IF wsIsConnected(Client) /\ ~fault
                                        THEN <<"message">> ELSE <<>>])
    /\ op' = [name |-> "send", state |-> connectionState,
              threw |-> ~wsIsConnected(Client) \/ fault,
              error |-> IF ~wsIsConnected(Client) THEN "WebSocket not connected"
                        ELSE IF fault THEN "Failed to send message" ELSE "none"]
    /\ UNCHANGED <<reconnectAwait, streak>> /\ WsFrame

SocketOpen(s) ==
    /\ ~reconnectAwait
    /\ sockets[s].rs = "connecting"
    /\ Install(onopen([Client EXCEPT !.sockets[s].rs = "open",
                                      !.sockets[s].opened = TRUE], s))
    /\ streak' = NoStreak
    /\ op' = [name |-> "open", socket |-> s, from |-> connectionState,
              before |-> reconnectAttempts]
    /\ UNCHANGED reconnectAwait /\ WsFrame

SocketError(s) ==
    /\ ~reconnectAwait
    /\ sockets[s].rs \in {"connecting", "open", "closing"}
    /\ ~sockets[s].errored
    /\ LET c == [Client EXCEPT !.sockets[s] = [CloseSocket(@) EXCEPT !.errored = TRUE]]
       IN /\ Install(onerror(c, s))
          /\ op' = [name |-> "error", from |-> connectionState, own |-> ws = Some(s),
                    socket |-> s, closed |-> ClosedBy(c, onerror(c, s))]
    /\ UNCHANGED <<reconnectAwait, streak>> /\ WsFrame

SocketClose(s, jitter) ==
    /\ ~reconnectAwait
    /\ sockets[s].rs \in {"connecting", "open", "closing"}
    /\ LET c == onclose([Client EXCEPT !.sockets[s].rs = "closed"], s, jitter) IN
       /\ Install(c)
    /\ streak' =
          IF sockets[s].opened
          THEN IF /\ connectionState = "connected" /\ shouldReconnect
                  /\ ws = Some(s) /\ LiveSockets = {s}
               THEN [since |-> "drop", fails |-> 0]
               ELSE NoStreak
          ELSE IF streak.since # "none"
               THEN [streak EXCEPT !.fails = Min(@ + 1, RECONNECT_MAX_ATTEMPTS + 2)]
               ELSE streak
    /\ op' = [name |-> "close", opened |-> sockets[s].opened, from |-> connectionState,
              auto |-> shouldReconnect, before |-> reconnectAttempts, jitter |-> jitter]
    /\ UNCHANGED reconnectAwait /\ WsFrame

ConnectTimeout(s) ==
    /\ ~reconnectAwait
    /\ sockets[s].timeout
    /\ Install(ontimeout(Client, s))
    /\ op' = [name |-> "timeout", from |-> connectionState, own |-> ws = Some(s),
              socket |-> s, closed |-> ClosedBy(Client, ontimeout(Client, s))]
    /\ UNCHANGED <<reconnectAwait, streak>> /\ WsFrame

\* the reconnect timer fires: doConnect
ReconnectTimerFire ==
    /\ ~reconnectAwait
    /\ TimerPending
    /\ Creates(Client) => HasFreeSlot(Client)
    /\ Install(doConnect([Client EXCEPT !.reconnectTimer[1].fired = TRUE]))
    /\ op' = [name |-> "reconnectTimer"]
    /\ UNCHANGED <<reconnectAwait, streak>> /\ WsFrame

\* the heartbeat interval fires: a ping, if connected
Heartbeat ==
    /\ ~reconnectAwait
    /\ heartbeatTimer
    /\ Install([Client EXCEPT !.wire = IF wsIsConnected(Client)
                                        THEN <<"ping">> ELSE <<>>])
    /\ op' = [name |-> "heartbeat"]
    /\ UNCHANGED <<reconnectAwait, streak>> /\ WsFrame

\* the data of an incoming frame: a pong, an envelope (any other JSON value with
\* properties), the JSON text null, and text that is not JSON
Frames == {"pong", "envelope", "null", "unparseable"}

\* JSON.parse(event.data) returns; message.type can be read of what it returns
Parses(frame) == frame # "unparseable"
HasType(frame) == frame # "null"

\* the message handler ChatSDK installs: emit message:received, messageStore.create
MessageReceived == [type |-> "message:received"]
StoreCreate == [type |-> "messageStore.create"]
messageHandler(c) ==
    [c EXCEPT !.emitted = @ \o <<MessageEvent, MessageReceived, StoreCreate>>]

\* mutant of onmessage: a pong is forwarded like any other frame
onmessage_PongForwarded(c, frame) ==
    IF Parses(frame) /\ HasType(frame)
    THEN messageHandler(c)
    ELSE handleError(c, "Failed to parse message")

\* ws.onmessage: the try block throws on text that does not parse and on null
onmessage(c, frame) ==
    IF Parses(frame) /\ HasType(frame)
    THEN IF frame = "pong" THEN c ELSE messageHandler(c)
    ELSE handleError(c, "Failed to parse message")

\* a message event of socket s
SocketMessage(s, frame) ==
    /\ ~reconnectAwait
    /\ sockets[s].rs = "open"
    /\ Install(onmessage(Client, frame))
    /\ op' = [name |-> "message", frame |-> frame]
    /\ UNCHANGED <<reconnectAwait, streak>> /\ WsFrame

InitWS ==
    /\ queue = <<>> /\ now = StartTime /\ calls = [m \in MessageIds |-> "none"]
    /\ replays = <<>>
    /\ connectionState = "disconnected" /\ reconnectAttempts = 0
    /\ shouldReconnect = TRUE /\ currentUserId = None /\ ws = None
    /\ reconnectTimer = None /\ heartbeatTimer = FALSE
    /\ sockets = [i \in 1..MaxSockets |-> FreeSocket]
    /\ reconnectAwait = FALSE /\ streak = NoStreak
    /\ emitted = <<>> /\ wire = <<>> /\ op = [name |-> "new"]
    /\ NoApp /\ NoCount

NextWS ==
    \/ \E u \in UserIds : Connect(u)
    \/ Disconnect
    \/ ReconnectBegin
    \/ ReconnectResume
    \/ \E fault \in BOOLEAN : WsSend(fault)
    \/ \E s \in 1..MaxSockets : SocketOpen(s)
    \/ \E s \in 1..MaxSockets : SocketError(s)
    \/ \E s \in 1..MaxSockets, jitter \in Jitters : SocketClose(s, jitter)
    \/ \E s \in 1..MaxSockets : ConnectTimeout(s)
    \/ ReconnectTimerFire
    \/ Heartbeat
    \/ \E s \in 1..MaxSockets, frame \in Frames : SocketMessage(s, frame)

SpecWS == InitWS /\ [][NextWS]_vars

-----------------------------------------------------------------------------
(* ChatSDK (index.ts): sendMessage from its first line, setCurrentUser and  *)
(* the handlers of the transport, with the message store                    *)

\* validation.ts
MAX_MESSAGE_LENGTH == 10000

\* the plaintext arguments of sendMessage: strings, by their length, and a
\* value that is no string (null)
Plaintexts == {None} \cup {Some(n) : n \in {0, 1, MAX_MESSAGE_LENGTH, MAX_MESSAGE_LENGTH + 1}}
IsString(p) == p # None

\* the envelopes that arrive from the transport
IncomingIds == {"r1", "r2"}

\* the errors by their class
SessionError == "SessionError"
ValidationError == "ValidationError"
TransportError == "TransportError"
EncryptFault == "session.encrypt rejected"
StorageFault == "messageStore.create rejected"
ConnectFault == "transport.connect rejected"
StorageError == "StorageError"

\* EVENTS.ERROR
SdkErrorEvent(err) == [type |-> "error", error |-> err]

\* mutant of validateMessage: the limit is one character too high
validateMessage_OffByOne(p) ==
    IF Falsy(p) \/ ~IsString(p) THEN Some(ValidationError)
    ELSE IF p[1] > MAX_MESSAGE_LENGTH + 1 THEN Some(ValidationError)
    ELSE None

\* validateMessage: the error it throws, if any
validateMessage(p) ==
    IF Falsy(p) \/ ~IsString(p) THEN Some(ValidationError)
    ELSE IF p[1] = 0 THEN Some(ValidationError)
    ELSE IF p[1] > MAX_MESSAGE_LENGTH THEN Some(ValidationError)
    ELSE None

\* mutant of SendMessageGuard: the input is checked only once a user is set,
\* and a call without a user goes on
SendMessageGuard_NoUserCheck(user, p) ==
    IF user = None THEN None ELSE validateMessage(p)

\* sendMessage before its try block: the error thrown to the caller, if any
SendMessageGuard(user, p) ==
    IF user = None THEN Some(SessionError) ELSE validateMessage(p)

\* mutant of SendMessageFault: a rejected messageStore.create is not noticed
SendMessageFault_StoreUnchecked(guard, encryptOk, storeOk) ==
    IF guard # None THEN None
    ELSE IF ~encryptOk THEN Some(EncryptFault)
    ELSE None

\* sendMessage, the try block up to the store: the fault that reaches the
\* catch, of session.encrypt or of messageStore.create, both awaited
SendMessageFault(guard, encryptOk, storeOk) ==
    IF guard # None THEN None
    ELSE IF ~encryptOk THEN Some(EncryptFault)
    ELSE IF ~storeOk THEN Some(StorageFault)
    ELSE None

\* sendMessage up to and including messageStore.create: the guard, then inside
\* the try block session.encrypt (the envelope id) and the store; a fault of
\* either is caught, emitted as an error event and thrown again
SendMessageEnter(id, p, encryptOk, storeOk) ==
    /\ calls[id] = "none"
    /\ LET guard == SendMessageGuard(currentUser, p)
           fault == SendMessageFault(guard, encryptOk, storeOk)
           threw == IF guard # None THEN guard ELSE fault
       IN /\ messageStore' = IF threw = None /\ storeOk THEN messageStore \cup {id}
                             ELSE messageStore
          /\ calls' = IF threw = None THEN [calls EXCEPT ![id] = "stored"] ELSE calls
          /\ emitted' = IF fault # None THEN <<SdkErrorEvent(fault[1])>> ELSE <<>>
          /\ op' = [name |-> "sendMessageEnter", id |-> id, user |-> currentUser,
                    plaintext |-> p, threw |-> threw, caught |-> fault,
                    encrypted |-> guard = None /\ encryptOk,
                    store |-> messageStore, queue |-> queue]
    /\ wire' = <<>>
    /\ UNCHANGED <<queue, now, connectionState, replays, sends, currentUser, groupStore,
                   session>>
    /\ UNCHANGED wsvars

\* setCurrentUser: the user is set, then the transport connects; a rejected
\* connect is emitted as an error event and thrown as a TransportError
SetCurrentUser(u, connectOk) ==
    /\ currentUser' = Some(u)
    /\ emitted' = IF connectOk THEN <<>> ELSE <<SdkErrorEvent(TransportError)>>
    /\ op' = [name |-> "setCurrentUser", user |-> u,
              threw |-> IF connectOk THEN None ELSE Some(TransportError),
              caught |-> IF connectOk THEN None ELSE Some(ConnectFault)]
    /\ wire' = <<>>
    /\ UNCHANGED <<queue, now, connectionState, calls, replays, sends, messageStore, groupStore,
                   session>>
    /\ UNCHANGED wsvars

\* the transport delivers an envelope: the handler emits message:received and
\* stores it; a rejection of messageStore.create is caught and logged
OnMessage(id, storeOk) ==
    /\ emitted' = <<MessageReceived>>
    /\ messageStore' = IF storeOk THEN messageStore \cup {id} ELSE messageStore
    /\ op' = [name |-> "onMessage", id |-> id, threw |-> None,
              caught |-> IF storeOk THEN None ELSE Some(StorageFault)]
    /\ wire' = <<>>
    /\ UNCHANGED <<queue, now, connectionState, calls, replays, sends, currentUser, groupStore,
                   session>>
    /\ UNCHANGED wsvars

\* the onError handler: the transport's error is emitted
OnTransportError ==
    /\ emitted' = <<SdkErrorEvent(TransportError)>>
    /\ op' = [name |-> "onError", threw |-> None, caught |-> None]
    /\ wire' = <<>>
    /\ UNCHANGED <<queue, now, connectionState, calls, replays, sends>>
    /\ UNCHANGED <<wsvars, appvars>>

InitApp ==
    /\ queue = <<>> /\ now = StartTime
    /\ op = [name |-> "new"]
    /\ Idle

NextApp ==
    \/ \E u \in UserIds, connectOk \in BOOLEAN : SetCurrentUser(u, connectOk)
    \/ \E id \in RetryIds, p \in Plaintexts, encryptOk \in BOOLEAN, storeOk \in BOOLEAN :
          SendMessageEnter(id, p, encryptOk, storeOk)
    \/ \E id \in RetryIds : SendMessageDispatch(id)
    \/ \E id \in RetryIds : SendMessageSent(id)
    \/ \E id \in RetryIds : SendMessageFailed(id)
    \/ \E id \in IncomingIds, storeOk \in BOOLEAN : OnMessage(id, storeOk)
    \/ \E state \in ReportedStates : OnConnectionStateChange(state)
    \/ \E r \in 1..MaxReplays, outcome \in {"ok", "fail"} : ReplaySettle(r, outcome)
    \/ OnTransportError

SpecApp == InitApp /\ [][NextApp]_vars

-----------------------------------------------------------------------------
(* crypto/utils.ts, crypto/keys.ts, crypto/e2e.ts, crypto/group.ts           *)
(* Buffers are sequences of bytes; strings are sequences of UTF-16 code     *)
(* units; base64 text is a sequence of characters, each the 6-bit value it  *)
(* stands for, with two more characters for "=" and for a line break.       *)

Pad == 64
LineBreak == 65
Drop(s, n) == SubSeq(s, n + 1, Len(s))

\* Buffer.prototype.toString("base64")
RECURSIVE bufferToBase64(_)
bufferToBase64(b) ==
    IF Len(b) = 0 THEN <<>>
    ELSE IF Len(b) = 1 THEN <<b[1] \div 4, (b[1] % 4) * 16, Pad, Pad>>
    ELSE IF Len(b) = 2
         THEN <<b[1] \div 4, (b[1] % 4) * 16 + b[2] \div 16, (b[2] % 16) * 4, Pad>>
    ELSE <<b[1] \div 4, (b[1] % 4) * 16 + b[2] \div 16,
           (b[2] % 16) * 4 + b[3] \div 64, b[3] % 64>> \o bufferToBase64(Drop(b, 3))

\* the 6-bit values a base64 text carries: the decoder skips what is not of the
\* alphabet and stops at the first "="
RECURSIVE Sextets(_)
Sextets(s) ==
    IF Len(s) = 0 \/ s[1] = Pad THEN <<>>
    ELSE IF s[1] \in 0..63 THEN <<s[1]>> \o Sextets(Tail(s))
    ELSE Sextets(Tail(s))

\* groups of four 6-bit values give three bytes; of a last group of two or
\* three values the bits beyond the last whole byte are dropped
RECURSIVE DecodeSextets(_)
DecodeSextets(x) ==
    IF Len(x) < 2 THEN <<>>
    ELSE IF Len(x) = 2 THEN <<x[1] * 4 + x[2] \div 16>>
    ELSE IF Len(x) = 3
         THEN <<x[1] * 4 + x[2] \div 16, (x[2] % 16) * 16 + x[3] \div 4>>
    ELSE <<x[1] * 4 + x[2] \div 16, (x[2] % 16) * 16 + x[3] \div 4,
           (x[3] % 4) * 64 + x[4]>> \o DecodeSextets(Drop(x, 4))

\* Buffer.from(data, "base64")
base64ToBuffer(data) == DecodeSextets(Sextets(data))

\* Buffer.compare: -1, 0 or 1 by the first byte that differs, then by length
RECURSIVE BufferCompare(_, _)
BufferCompare(a, b) ==
    IF Len(a) = 0 /\ Len(b) = 0 THEN 0
    ELSE IF Len(a) = 0 THEN 0 - 1
    ELSE IF Len(b) = 0 THEN 1
    ELSE IF a[1] < b[1] THEN 0 - 1
    ELSE IF a[1] > b[1] THEN 1
    ELSE BufferCompare(Tail(a), Tail(b))

\* SUPPORTED_CURVE: the group of prime256v1 scaled down to the multiplicative
\* group modulo a small prime p with generator g; a private key is an exponent
Curve == [p |-> 23, g |-> 5]

RECURSIVE ScalarMult(_, _)
ScalarMult(point, k) == IF k = 0 THEN 1 ELSE (point * ScalarMult(point, k - 1)) % Curve.p

\* ecdh.generateKeys can draw any of these
PrivateKeys == 1..(Curve.p - 2)

\* ecdh.getPublicKey, ecdh.computeSecret
getPublicKey(priv) == <<ScalarMult(Curve.g, priv)>>
computeSecret(priv, remote) == <<ScalarMult(remote[1], priv[1])>>

\* generateIdentityKeyPair, for the private key the generator drew
generateIdentityKeyPair(priv) ==
    [publicKey |-> bufferToBase64(getPublicKey(priv)),
     privateKey |-> bufferToBase64(<<priv>>)]
KeyPairs == {generateIdentityKeyPair(priv) : priv \in PrivateKeys}

\* createHash("sha256").update(first).update(second).digest().slice(0, SALT_LENGTH)
\* and pbkdf2Sync(password, salt, ...): ideal functions, which differ in their
\* value wherever they differ in their input
Salt(first, second) == first \o second
pbkdf2Sync(password, salt) == password \o salt

\* mutant of SaltInputs: the public keys are hashed local first, unsorted
SaltInputs_Unsorted(a, b) == <<a, b>>

\* deriveSharedSecret: the two public keys in the order Buffer.compare gives
SaltInputs(a, b) == IF BufferCompare(a, b) <= 0 THEN <<a, b>> ELSE <<b, a>>

deriveSharedSecret(local, remotePublicKey) ==
    LET sharedSecret == computeSecret(base64ToBuffer(local.privateKey),
                                      base64ToBuffer(remotePublicKey))
        sorted == SaltInputs(base64ToBuffer(local.publicKey),
                             base64ToBuffer(remotePublicKey))
    IN  pbkdf2Sync(sharedSecret, Salt(sorted[1], sorted[2]))

\* e2e.ts
IV_LENGTH == 12
TAG_LENGTH == 16

\* the longest plaintext of the model, in UTF-16 code units
MaxLen == 2

\* UTF-16 code units: "a", "e" with an acute accent, the two halves of the
\* surrogate pair of U+1F600, and the dash of the session ids
CodeUnits == {97, 233, 55357, 56832}
Dash == 45
Replacement == 65533
IsHigh(u) == u \in 55296..56319
IsLow(u) == u \in 56320..57343

\* the strings of at most n code units
RECURSIVE StringsUpTo(_)
StringsUpTo(n) ==
    IF n = 0 THEN {<<>>}
    ELSE StringsUpTo(n - 1) \cup
         {Append(s, u) : s \in {t \in StringsUpTo(n - 1) : Len(t) = n - 1}, u \in CodeUnits}
Strings == StringsUpTo(MaxLen)

\* a surrogate at position i of s that is not half of a pair
Lone(s, i) ==
    \/ IsHigh(s[i]) /\ ~(i < Len(s) /\ IsLow(s[i + 1]))
    \/ IsLow(s[i]) /\ ~(i > 1 /\ IsHigh(s[i - 1]))

\* String.prototype.isWellFormed, String.prototype.toWellFormed
WellFormed(s) == \A i \in 1..Len(s) : ~Lone(s, i)
toWellFormed(s) == [i \in 1..Len(s) |-> IF Lone(s, i) THEN Replacement ELSE s[i]]

\* UTF-8 of one code point
EncodeCodePoint(cp) ==
    IF cp < 128 THEN <<cp>>
    ELSE IF cp < 2048 THEN <<192 + cp \div 64, 128 + (cp % 64)>>
    ELSE IF cp < 65536
         THEN <<224 + cp \div 4096, 128 + ((cp \div 64) % 64), 128 + (cp % 64)>>
    ELSE <<240 + cp \div 262144, 128 + ((cp \div 4096) % 64),
           128 + ((cp \div 64) % 64), 128 + (cp % 64)>>

\* mutant of utf8Encode: a surrogate without its other half is encoded as it is
RECURSIVE utf8Encode_Wtf8(_)
utf8Encode_Wtf8(s) ==
    IF Len(s) = 0 THEN <<>>
    ELSE IF IsHigh(s[1]) /\ Len(s) >= 2 /\ IsLow(s[2])
         THEN EncodeCodePoint(65536 + (s[1] - 55296) * 1024 + (s[2] - 56320))
              \o utf8Encode_Wtf8(Drop(s, 2))
    ELSE EncodeCodePoint(s[1]) \o utf8Encode_Wtf8(Tail(s))

\* the UTF-8 bytes of a string (cipher.update(plaintext, "utf8"), Buffer.from(s,
\* "utf8")): a surrogate pair is one code point, a surrogate without its other
\* half is replaced by U+FFFD
RECURSIVE utf8Encode(_)
utf8Encode(s) ==
    IF Len(s) = 0 THEN <<>>
    ELSE IF IsHigh(s[1]) /\ Len(s) >= 2 /\ IsLow(s[2])
         THEN EncodeCodePoint(65536 + (s[1] - 55296) * 1024 + (s[2] - 56320))
              \o utf8Encode(Drop(s, 2))
    ELSE IF IsHigh(s[1]) \/ IsLow(s[1])
         THEN EncodeCodePoint(Replacement) \o utf8Encode(Tail(s))
    ELSE EncodeCodePoint(s[1]) \o utf8Encode(Tail(s))

\* the number of bytes the lead byte announces, 0 for a byte that leads nothing
SequenceLength(lead) ==
    IF lead < 128 THEN 1
    ELSE IF lead \in 194..223 THEN 2
    ELSE IF lead \in 224..239 THEN 3
    ELSE IF lead \in 240..244 THEN 4
    ELSE 0

DecodeCodePoint(b, n) ==
    IF n = 1 THEN b[1]
    ELSE IF n = 2 THEN (b[1] - 192) * 64 + (b[2] - 128)
    ELSE IF n = 3 THEN (b[1] - 224) * 4096 + (b[2] - 128) * 64 + (b[3] - 128)
    ELSE (b[1] - 240) * 262144 + (b[2] - 128) * 4096 + (b[3] - 128) * 64 + (b[4] - 128)

\* the code units of a code point: itself, or a surrogate pair
ToCodeUnits(cp) ==
    IF cp < 65536 THEN <<cp>>
    ELSE <<55296 + (cp - 65536) \div 1024, 56320 + ((cp - 65536) % 1024)>>

\* buffer.toString("utf8"): a byte that starts no complete sequence, and a
\* sequence that encodes a surrogate, become U+FFFD
RECURSIVE utf8Decode(_)
utf8Decode(b) ==
    IF Len(b) = 0 THEN <<>>
    ELSE LET n == SequenceLength(b[1])
             complete == n > 0 /\ Len(b) >= n /\ \A i \in 2..n : b[i] \in 128..191
             cp == IF complete THEN DecodeCodePoint(b, n) ELSE Replacement
         IN  IF ~complete \/ IsHigh(cp) \/ IsLow(cp)
             THEN <<Replacement>> \o utf8Decode(Tail(b))
             ELSE ToCodeUnits(cp) \o utf8Decode(Drop(b, n))

\* randomBytes(IV_LENGTH) can return any of these
IVs == {[i \in 1..IV_LENGTH |-> n] : n \in {1, 2}}

RECURSIVE SumBytes(_)
SumBytes(b) == IF Len(b) = 0 THEN 0 ELSE b[1] + SumBytes(Tail(b))

\* aes-256-gcm, the counter mode: byte i of the text is combined with byte i of
\* a key stream that the key and the IV determine (here by addition modulo 256)
KeystreamByte(key, iv, i) == (7 * SumBytes(key) + 13 * SumBytes(iv) + 5 * i) % 256
cipherUpdate(key, iv, text) ==
    [i \in 1..Len(text) |-> (text[i] + KeystreamByte(key, iv, i)) % 256]
decipherUpdate(key, iv, text) ==
    [i \in 1..Len(text) |-> (text[i] + 256 - KeystreamByte(key, iv, i)) % 256]

\* aes-256-gcm, the authentication tag: TAG_LENGTH bytes that differ wherever
\* the key, the IV or the ciphertext differ (an ideal MAC on the model's values)
getAuthTag(key, iv, ciphertext) ==
    LET t == <<Len(ciphertext)>> \o ciphertext \o <<Len(iv)>> \o SubSeq(iv, 1, 1) \o key
    IN  [i \in 1..TAG_LENGTH |-> IF i <= Len(t) THEN t[i] ELSE 0]

\* decipher.setAuthTag accepts tags of these lengths
TagLengths == {4, 8, 12, 13, 14, 15, 16}

\* buffer.slice(-n), buffer.slice(0, -n)
SliceLast(b, n) == IF Len(b) <= n THEN b ELSE Drop(b, Len(b) - n)
SliceButLast(b, n) == IF Len(b) <= n THEN <<>> ELSE SubSeq(b, 1, Len(b) - n)

\* encryptMessage, for the IV randomBytes drew
encryptMessage(plaintext, secret, iv) ==
    LET ciphertext == cipherUpdate(secret, iv, utf8Encode(plaintext))
        tag == getAuthTag(secret, iv, ciphertext)
    IN  [ciphertext |-> bufferToBase64(ciphertext \o tag), iv |-> bufferToBase64(iv)]

\* mutant of decryptMessage: the text is returned without the tag being verified
decryptMessage_Unverified(ciphertext, iv, secret) ==
    LET encryptedBuffer == base64ToBuffer(ciphertext)
        ivBuffer == base64ToBuffer(iv)
        actualCiphertext == SliceButLast(encryptedBuffer, TAG_LENGTH)
    IN  Some(utf8Decode(decipherUpdate(secret, ivBuffer, actualCiphertext)))

\* decryptMessage: the string it returns, or None when it throws (createDecipheriv
\* on an empty IV, setAuthTag on a tag of a wrong length, decipher.final on a tag
\* that does not verify)
decryptMessage(ciphertext, iv, secret) ==
    LET encryptedBuffer == base64ToBuffer(ciphertext)
        ivBuffer == base64ToBuffer(iv)
        tag == SliceLast(encryptedBuffer, TAG_LENGTH)
        actualCiphertext == SliceButLast(encryptedBuffer, TAG_LENGTH)
    IN  IF Len(ivBuffer) = 0 \/ Len(tag) \notin TagLengths THEN None
        ELSE IF tag # SubSeq(getAuthTag(secret, ivBuffer, actualCiphertext), 1, Len(tag))
        THEN None
        ELSE Some(utf8Decode(decipherUpdate(secret, ivBuffer, actualCiphertext)))

\* deriveGroupKey
deriveGroupKey(groupId) ==
    [groupId |-> groupId,
     key |-> bufferToBase64(pbkdf2Sync(utf8Encode(groupId), utf8Encode(groupId)))]

\* the ids of the model's groups ("g", "ga") and the keys of the model: those of
\* the groups and those of some pairs of identity key pairs
GroupIds == {<<103>>, <<103, 97>>}
SecretKeys ==
    {base64ToBuffer(deriveGroupKey(g).key) : g \in GroupIds} \cup
    {deriveSharedSecret(generateIdentityKeyPair(a), generateIdentityKeyPair(b).publicKey) :
        a \in {3}, b \in {7, 11}}

\* what a third party can do to the base64 text of a ciphertext without the
\* key: change one character, cut the text short, add a line break, drop the
\* padding
Tampers(c) ==
    {[kind |-> "flip", at |-> i] : i \in {j \in 1..Len(c) : c[j] \in 0..63}} \cup
    {[kind |-> "cut", at |-> i] : i \in 0..(Len(c) - 1)} \cup
    {[kind |-> "break", at |-> i] : i \in {0, Len(c)}} \cup
    {[kind |-> "unpad", at |-> Len(c)]}
NoTamper == [kind |-> "none", at |-> 0]

Tamper(c, t) ==
    CASE t.kind = "flip" ->
            [c EXCEPT ![t.at] = IF c[t.at] % 2 = 0 THEN c[t.at] + 1 ELSE c[t.at] - 1]
      [] t.kind = "cut" -> SubSeq(c, 1, t.at)
      [] t.kind = "break" -> SubSeq(c, 1, t.at) \o <<LineBreak>> \o Drop(c, t.at)
      [] t.kind = "unpad" -> SelectSeq(c, LAMBDA x : x # Pad)
      [] OTHER -> c

\* the calls of the functions of e2e.ts, with their arguments: the two key
\* pairs of deriveSharedSecret; the plaintext, the key and the IV drawn of
\* encryptMessage; for decryptMessage also what was done to the ciphertext
\* (encrypted under one of the IVs) and the key it is given
DeriveCalls ==
    {[name |-> "call", fn |-> "deriveSharedSecret", a |-> a, b |-> b] :
        a \in KeyPairs, b \in KeyPairs}
EncryptCalls ==
    {[name |-> "call", fn |-> "encryptMessage", plaintext |-> plaintext,
      secret |-> secret, iv |-> iv] :
        plaintext \in Strings, secret \in SecretKeys, iv \in IVs}
DecryptCalls ==
    UNION {
        {[name |-> "call", fn |-> "decryptMessage", plaintext |-> e.plaintext,
          secret |-> e.secret, iv |-> e.iv, tamper |-> t, with |-> e.secret] :
            t \in Tampers(encryptMessage(e.plaintext, e.secret, e.iv).ciphertext)}
        \cup
        {[name |-> "call", fn |-> "decryptMessage", plaintext |-> e.plaintext,
          secret |-> e.secret, iv |-> e.iv, tamper |-> NoTamper, with |-> k] :
            k \in SecretKeys \ {e.secret}}
        : e \in {c \in EncryptCalls : c.iv[1] = 1}}

E2EFrame ==
    /\ emitted' = <<>> /\ wire' = <<>>
    /\ UNCHANGED <<queue, now, connectionState, sdkvars, wsvars, appvars>>

\* deriveSharedSecret, called by each side of a pair of key pairs
DeriveSharedSecret ==
    /\ op.name = "call" /\ op.fn = "deriveSharedSecret"
    /\ op' = [name |-> "deriveSharedSecret", a |-> op.a, b |-> op.b,
              ab |-> deriveSharedSecret(op.a, op.b.publicKey),
              ba |-> deriveSharedSecret(op.b, op.a.publicKey)]
    /\ E2EFrame

\* encryptMessage, then decryptMessage of what it returned with the same key
EncryptDecrypt ==
    /\ op.name = "call" /\ op.fn = "encryptMessage"
    /\ LET enc == encryptMessage(op.plaintext, op.secret, op.iv)
       IN  op' = [name |-> "encryptDecrypt", plaintext |-> op.plaintext,
                  secret |-> op.secret, encrypted |-> enc,
                  decrypted |-> decryptMessage(enc.ciphertext, enc.iv, op.secret)]
    /\ E2EFrame

\* encryptMessage, then decryptMessage of a ciphertext that was changed on the
\* way, or with another key
DecryptTampered ==
    /\ op.name = "call" /\ op.fn = "decryptMessage"
    /\ LET enc == encryptMessage(op.plaintext, op.secret, op.iv)
           ciphertext == Tamper(enc.ciphertext, op.tamper)
       IN  op' = [name |-> "decryptTampered", plaintext |-> op.plaintext,
                  secret |-> op.secret, with |-> op.with, tamper |-> op.tamper,
                  encrypted |-> enc, ciphertext |-> ciphertext,
                  decrypted |-> decryptMessage(ciphertext, enc.iv, op.with)]
    /\ E2EFrame

InitE2E ==
    /\ queue = <<>> /\ now = StartTime
    /\ op \in DeriveCalls \cup EncryptCalls \cup DecryptCalls
    /\ Idle

NextE2E ==
    \/ DeriveSharedSecret
    \/ EncryptDecrypt
    \/ DecryptTampered

SpecE2E == InitE2E /\ [][NextE2E]_vars

-----------------------------------------------------------------------------
(* ChatSession, GroupSession (chat/) and the calls of ChatSDK that make and  *)
(* use them, on a ChatSDK configured without a transport                    *)

\* the users createUser made, by id ("a", "ab", "b") and identity key pair
User(id, priv) ==
    [id |-> id, publicKey |-> generateIdentityKeyPair(priv).publicKey,
     privateKey |-> generateIdentityKeyPair(priv).privateKey]
Users == {User(<<97>>, 3), User(<<97, 98>>, 5), User(<<98>>, 7)}
KeyPairOf(user) == [publicKey |-> user.publicKey, privateKey |-> user.privateKey]

\* the groups createGroup can make: an id and the ids of at least two members
Groups ==
    {[id |-> <<103>>, members |-> {<<97>>, <<98>>}],
     [id |-> <<103, 97>>, members |-> {<<97>>, <<97, 98>>, <<98>>}]}

\* the plaintexts sent through a session: "a", half a surrogate pair, the pair
SentTexts == {<<97>>, <<55357>>, <<55357, 56832>>}

\* EVENTS
SessionCreated(id) == [type |-> "session:created", id |-> id]
GroupCreated(id) == [type |-> "group:created", id |-> id]

\* mutant of SortIds: the ids are kept in the order of the arguments
SortIds_Unsorted(ids) == ids

\* [userA.id, userB.id].sort(): by UTF-16 code units, a prefix first
SortIds(ids) == IF BufferCompare(ids[1], ids[2]) <= 0 THEN ids ELSE <<ids[2], ids[1]>>

\* `${ids[0]}-${ids[1]}`
SessionId(a, b) == LET ids == SortIds(<<a.id, b.id>>) IN ids[1] \o <<Dash>> \o ids[2]

\* new ChatSession(id, userA, userB), new GroupSession(group)
NewChat(id, a, b) ==
    [kind |-> "chat", id |-> id, userA |-> a, userB |-> b, sharedSecret |-> None]
NewGroup(group) == [kind |-> "group", group |-> group, groupKey |-> None]

\* ChatSession.initialize, ChatSession.initializeForUser, GroupSession.initialize
initialize(s) ==
    IF s.kind = "chat"
    THEN [s EXCEPT !.sharedSecret =
              Some(deriveSharedSecret(KeyPairOf(s.userA), s.userB.publicKey))]
    ELSE [s EXCEPT !.groupKey = Some(base64ToBuffer(deriveGroupKey(s.group.id).key))]
initializeForUser(s, user) ==
    LET otherUser == IF user.id = s.userA.id THEN s.userB ELSE s.userA
    IN  [s EXCEPT !.sharedSecret =
              Some(deriveSharedSecret(KeyPairOf(user), otherUser.publicKey))]

\* the key of a session, null before it is computed
SecretOf(s) == IF s.kind = "chat" THEN s.sharedSecret ELSE s.groupKey

\* encrypt and decrypt start by computing the key if there is none
Ready(s) == IF SecretOf(s) = None THEN initialize(s) ELSE s

\* ChatSession.decrypt: the key is computed from the user's side if there is
\* none, and also if the user is neither userA nor userB
ReadyFor(s, user) ==
    IF s.kind = "chat"
    THEN IF s.sharedSecret = None \/ (user.id # s.userA.id /\ user.id # s.userB.id)
         THEN initializeForUser(s, user) ELSE s
    ELSE Ready(s)

\* mutant of ReceiverId: the receiver is always userB
ReceiverId_AlwaysB(s, senderId) == s.userB.id

\* ChatSession.encrypt: receiverId
ReceiverId(s, senderId) == IF senderId = s.userA.id THEN s.userB.id ELSE s.userA.id

\* the Message that ChatSession.encrypt / GroupSession.encrypt return of a
\* ready session, for the id and the IV drawn; a property that is not set is None
Envelope(s, id, plaintext, senderId, iv) ==
    LET enc == encryptMessage(plaintext, SecretOf(s)[1], iv)
    IN  [id |-> id, senderId |-> senderId,
         receiverId |-> IF s.kind = "chat" THEN Some(ReceiverId(s, senderId)) ELSE None,
         groupId |-> IF s.kind = "group" THEN Some(s.group.id) ELSE None,
         ciphertext |-> enc.ciphertext, iv |-> enc.iv, type |-> "text"]

CryptoFrame == UNCHANGED <<queue, now, connectionState, sdkvars, wsvars>>

\* startSession: the id from the sorted user ids, the session initialized
StartSession(a, b) ==
    /\ session' = initialize(NewChat(SessionId(a, b), a, b))
    /\ op' = [name |-> "startSession", userA |-> a, userB |-> b, id |-> session'.id]
    /\ emitted' = <<SessionCreated(session'.id)>> /\ wire' = <<>>
    /\ UNCHANGED <<currentUser, messageStore, groupStore>> /\ CryptoFrame

\* new ChatSession(...) by the application, not initialized
NewChatSession(a, b) ==
    /\ session' = NewChat(SessionId(a, b), a, b)
    /\ op' = [name |-> "newChatSession", userA |-> a, userB |-> b]
    /\ emitted' = <<>> /\ wire' = <<>>
    /\ UNCHANGED <<currentUser, messageStore, groupStore>> /\ CryptoFrame

\* new GroupSession(group) by the application, not initialized
NewGroupSession(group) ==
    /\ session' = NewGroup(group)
    /\ op' = [name |-> "newGroupSession", group |-> group]
    /\ emitted' = <<>> /\ wire' = <<>>
    /\ UNCHANGED <<currentUser, messageStore, groupStore>> /\ CryptoFrame

\* session.encrypt(plaintext, senderId)
SessionEncrypt(id, plaintext, senderId, iv) ==
    /\ session # None
    /\ session' = Ready(session)
    /\ op' = [name |-> "encrypt", via |-> "encrypt", plaintext |-> plaintext,
              before |-> session,
              message |-> Envelope(session', id, plaintext, senderId, iv)]
    /\ emitted' = <<>> /\ wire' = <<>>
    /\ UNCHANGED <<currentUser, messageStore, groupStore>> /\ CryptoFrame

\* the steps that leave a message in hand
HasMessage == op.name \in {"encrypt", "decrypt", "sendMessageReturned", "decryptMessage"}

\* session.decrypt(message, user) of the message in hand
SessionDecrypt(user) ==
    /\ session # None /\ HasMessage
    /\ session' = ReadyFor(session, user)
    /\ op' = [name |-> "decrypt", via |-> op.via, plaintext |-> op.plaintext,
              message |-> op.message,
              user |-> user, before |-> session,
              decrypted |-> decryptMessage(op.message.ciphertext, op.message.iv,
                                           SecretOf(session')[1])]
    /\ emitted' = <<>> /\ wire' = <<>>
    /\ UNCHANGED <<currentUser, messageStore, groupStore>> /\ CryptoFrame

\* createGroup: the group is stored, its session initialized; a rejected
\* groupStore.create is emitted as an error event and thrown as a StorageError
CreateGroup(group, storeOk) ==
    /\ group \notin groupStore
    /\ groupStore' = IF storeOk THEN groupStore \cup {group} ELSE groupStore
    /\ session' = IF storeOk THEN initialize(NewGroup(group)) ELSE session
    /\ emitted' = IF storeOk THEN <<GroupCreated(group.id)>>
                   ELSE <<SdkErrorEvent(StorageError)>>
    /\ op' = [name |-> "createGroup", group |-> group,
              threw |-> IF storeOk THEN None ELSE Some(StorageError)]
    /\ wire' = <<>>
    /\ UNCHANGED <<currentUser, messageStore>> /\ CryptoFrame

\* loadGroup: a session for a group of the store, initialized
LoadGroup(group) ==
    /\ session' = IF group \in groupStore THEN initialize(NewGroup(group)) ELSE session
    /\ emitted' = IF group \in groupStore THEN <<>> ELSE <<SdkErrorEvent(SessionError)>>
    /\ op' = [name |-> "loadGroup", group |-> group,
              threw |-> IF group \in groupStore THEN None ELSE Some(SessionError)]
    /\ wire' = <<>>
    /\ UNCHANGED <<currentUser, messageStore, groupStore>> /\ CryptoFrame

\* sendMessage(session, plaintext) with no transport configured: the guard,
\* session.encrypt for the current user, messageStore.create, return
SendMessage(id, plaintext, iv) ==
    /\ session # None /\ id \notin messageStore
    /\ LET guard == SendMessageGuard(currentUser, Some(Len(plaintext))) IN
       IF guard # None
       THEN /\ op' = [name |-> "sendMessageThrew", threw |-> guard]
            /\ UNCHANGED <<session, messageStore>>
       ELSE /\ session' = Ready(session)
            /\ messageStore' = messageStore \cup {id}
            /\ op' = [name |-> "sendMessageReturned", via |-> "sendMessage",
                      plaintext |-> plaintext, before |-> session,
                      message |-> Envelope(session', id, plaintext, currentUser[1].id, iv)]
    /\ emitted' = <<>> /\ wire' = <<>>
    /\ UNCHANGED <<currentUser, groupStore>> /\ CryptoFrame

\* userStore.findById: the users createUser made are all in the user store
FindUser(id) == {u \in Users : u.id = id}
FindGroup(id) == {g \in groupStore : g.id = id}

\* mutant of DecryptedBy: a group message is decrypted like a message between
\* its sender and the user
DecryptedBy_Pairwise(message, user) ==
    LET chat == initializeForUser(NewChat(<<>>, user, user), user)
    IN  decryptMessage(message.ciphertext, message.iv, chat.sharedSecret[1])

\* decryptMessage inside its try block: the plaintext, or None when it throws
DecryptedBy(message, user) ==
    IF message.groupId # None
    THEN IF FindGroup(message.groupId[1]) = {} THEN None
         ELSE LET group == CHOOSE g \in FindGroup(message.groupId[1]) : TRUE
                  s == initialize(NewGroup(group))
              IN  decryptMessage(message.ciphertext, message.iv, s.groupKey[1])
    ELSE LET otherUserId == IF message.senderId = user.id THEN message.receiverId
                            ELSE Some(message.senderId)
         IN  IF otherUserId = None \/ Len(otherUserId[1]) = 0 THEN None
             ELSE IF FindUser(otherUserId[1]) = {} THEN None
             ELSE LET otherUser == CHOOSE u \in FindUser(otherUserId[1]) : TRUE
                      s == ReadyFor(initializeForUser(
                               NewChat(SessionId(user, otherUser), user, otherUser), user),
                               user)
                  IN  decryptMessage(message.ciphertext, message.iv, s.sharedSecret[1])

\* decryptMessage(message, user) of the message in hand; what its try block
\* throws is emitted as an error event and thrown again
DecryptMessage(user) ==
    /\ HasMessage
    /\ LET decrypted == DecryptedBy(op.message, user)
       IN  /\ op' = [name |-> "decryptMessage", via |-> op.via, plaintext |-> op.plaintext,
                     message |-> op.message, user |-> user, decrypted |-> decrypted,
                     before |-> session]
           /\ emitted' = IF decrypted = None THEN <<SdkErrorEvent("DecryptError")>> ELSE <<>>
    /\ wire' = <<>>
    /\ UNCHANGED appvars /\ CryptoFrame

InitCrypto ==
    /\ queue = <<>> /\ now = StartTime
    /\ op = [name |-> "new"]
    /\ Idle

NextCrypto ==
    \/ \E a \in Users, b \in Users : StartSession(a, b)
    \/ \E a \in Users, b \in Users : NewChatSession(a, b)
    \/ \E group \in Groups : NewGroupSession(group)
    \/ \E id \in RetryIds, plaintext \in SentTexts, sender \in Users, iv \in IVs :
          SessionEncrypt(id, plaintext, sender.id, iv)
    \/ \E user \in Users : SessionDecrypt(user)

SpecCrypto == InitCrypto /\ [][NextCrypto]_vars

\* ChatSDK with its stores: users, groups and sessions made by its calls,
\* messages sent with sendMessage and read with decryptMessage
NextChat ==
    \/ \E user \in Users : SetCurrentUser(user, TRUE)
    \/ \E group \in Groups, storeOk \in BOOLEAN : CreateGroup(group, storeOk)
    \/ \E group \in Groups : LoadGroup(group)
    \/ \E group \in Groups : NewGroupSession(group)
    \/ \E a \in Users, b \in Users : StartSession(a, b)
    \/ \E id \in RetryIds, plaintext \in SentTexts \cup {<<>>}, iv \in IVs :
          SendMessage(id, plaintext, iv)
    \/ \E user \in Users : DecryptMessage(user)

SpecChat == InitCrypto /\ [][NextChat]_vars

\* the data of a media attachment (base64 text, as a string: "a", "aa") and
\* the captions sent with it
MediaData == {<<97>>, <<97, 97>>}
Captions == {t \in SentTexts : WellFormed(t)}
MediaIds == {"m1"}

\* the Message that encryptMedia returns of a ready session: the caption is
\* encrypted with the IV drawn first, the media data with the IV drawn second,
\* and only the first IV is kept
MediaEnvelope(s, id, plaintext, data, senderId, iv, mediaIv) ==
    LET e == Envelope(s, id, plaintext, senderId, iv)
    IN  [id |-> e.id, senderId |-> e.senderId, receiverId |-> e.receiverId,
         groupId |-> e.groupId, ciphertext |-> e.ciphertext, iv |-> e.iv,
         type |-> "media",
         media |-> encryptMessage(data, SecretOf(s)[1], mediaIv).ciphertext]

\* the body of decryptMedia after the key is there: both decryptMessage calls
\* take message.iv; None when either throws
decryptMedia(message, key) ==
    LET text == decryptMessage(message.ciphertext, message.iv, key)
        data == decryptMessage(message.media, message.iv, key)
    IN  IF text = None \/ data = None THEN None
        ELSE Some([text |-> text[1], data |-> data[1]])

\* session.encryptMedia(plaintext, media, senderId)
SessionEncryptMedia(id, plaintext, data, senderId, iv, mediaIv) ==
    /\ session # None
    /\ session' = Ready(session)
    /\ op' = [name |-> "encryptMedia", plaintext |-> plaintext, data |-> data,
              before |-> session, key |-> SecretOf(session'),
              ivs |-> <<iv, mediaIv>>,
              message |-> MediaEnvelope(session', id, plaintext, data, senderId,
                                        iv, mediaIv)]
    /\ emitted' = <<>> /\ wire' = <<>>
    /\ UNCHANGED <<currentUser, messageStore, groupStore>> /\ CryptoFrame

\* session.decryptMedia(message, user) of the media message in hand
SessionDecryptMedia(user) ==
    /\ session # None /\ op.name \in {"encryptMedia", "decryptMedia"}
    /\ session' = ReadyFor(session, user)
    /\ op' = [name |-> "decryptMedia", plaintext |-> op.plaintext, data |-> op.data,
              before |-> session, key |-> op.key, ivs |-> op.ivs,
              message |-> op.message, user |-> user,
              decrypted |-> decryptMedia(op.message, SecretOf(session')[1])]
    /\ emitted' = <<>> /\ wire' = <<>>
    /\ UNCHANGED <<currentUser, messageStore, groupStore>> /\ CryptoFrame

NextMedia ==
    \/ \E a \in Users, b \in Users : StartSession(a, b)
    \/ \E group \in Groups : NewGroupSession(group)
    \/ \E id \in MediaIds, plaintext \in Captions, data \in MediaData, sender \in Users,
          iv \in IVs, mediaIv \in IVs :
          SessionEncryptMedia(id, plaintext, data, sender.id, iv, mediaIv)
    \/ \E user \in Users : SessionDecryptMedia(user)

SpecMedia == InitCrypto /\ [][NextMedia]_vars

\* ChatSDK and a 1:1 session the application holds: messages sent with
\* sendMessage, read with session.decrypt and with decryptMessage
NextReaders ==
    \/ \E user \in Users : SetCurrentUser(user, TRUE)
    \/ \E a \in Users, b \in Users : StartSession(a, b)
    \/ \E id \in RetryIds, plaintext \in SentTexts, iv \in IVs :
          SendMessage(id, plaintext, iv)
    \/ \E user \in Users : SessionDecrypt(user)
    \/ \E user \in Users : DecryptMessage(user)

SpecReaders == InitCrypto /\ [][NextReaders]_vars

-----------------------------------------------------------------------------
(* Claims about ChatSDK, checked under Spec                                 *)

\* C1: when the transport reports connected, processMessageQueue passes every entry
\* that is pending or due for a retry at that moment to transport.send (a running
\* replay holds them all in its snapshot, and when it ends it has sent them all);
\* each entry whose send succeeds is removed from the queue and message:sent is
\* emitted for it.
C1_ReplayOnConnected ==
    /\ \A r \in 1..Len(replays) :
          /\ replays[r].due \subseteq Range(replays[r].toSend)
          /\ replays[r].sent = {replays[r].toSend[i] : i \in 1..replays[r].idx}
    /\ (op.name = "stateChange" /\ op.state = "connected") =>
          /\ DueIds(queue, now) # {} =>
                /\ Len(replays) > 0
                /\ replays[Len(replays)].due = DueIds(queue, now)
                /\ wire # <<>> /\ wire[1] \in DueIds(queue, now)
    /\ op.name = "replaySettled" =>
          /\ op.done => op.due \subseteq op.sent
          /\ op.outcome = "ok" =>
                /\ ~Has(queue, op.id)
                /\ emitted = <<MessageSent(op.id)>>

\* a replay has just ended that sent an envelope queued by sendMessage while
\* disconnected and a failed one due for its retry; the last send succeeded
C1_Witness ==
    /\ op.name = "replaySettled" /\ op.done /\ op.outcome = "ok"
    /\ Cardinality(op.sent) = 2
    /\ \E id \in op.sent : calls[id] = "queued" /\ ~Has(queue, id)
    /\ \E id \in op.sent : calls[id] = "failed"
    /\ op.removed = {op.id}

\* C2: sendMessage chooses by connection state: not connected, the envelope is
\* enqueued (pending, attempts 0) and transport.send is not called; connected,
\* transport.send is called and the envelope is not in the queue unless that send failed.
C2_SendOrEnqueue ==
    /\ op.name = "sendMessage" =>
          IF op.connected
          THEN /\ wire = <<op.id>>
               /\ ~Has(queue, op.id)
               /\ calls[op.id] = "awaiting"
          ELSE /\ wire = <<>>
               /\ Has(queue, op.id)
               /\ Get(queue, op.id) = NewEntry(op.id)
               /\ calls[op.id] = "queued"
    /\ \A id \in SentIds : Has(queue, id) => calls[id] \in {"queued", "failed"}

\* sendMessage has just sent an envelope directly while another one is queued
C2_Witness ==
    /\ op.name = "sendMessage" /\ op.connected
    /\ \E id \in SentIds : calls[id] = "queued" /\ Has(queue, id)

StartedReplay == replays[Len(replays)].toSend

\* every running replay has sent exactly the first idx entries of its snapshot, and
\* the step that ran last passed the next one to transport.send
SentInSnapshotOrder ==
    /\ \A r \in 1..Len(replays) :
          replays[r].sent = {replays[r].toSend[i] : i \in 1..replays[r].idx}
    /\ (op.name = "stateChange" /\ op.replay) => wire = <<StartedReplay[1]>>
    /\ (op.name = "replaySettled" /\ ~op.done) =>
          \E r \in 1..Len(replays) :
             /\ replays[r].idx > 1
             /\ replays[r].toSend[replays[r].idx - 1] = op.id
             /\ wire = <<replays[r].toSend[replays[r].idx]>>

C20_FailureMarked ==
    (op.name = "replaySettled" /\ op.outcome = "fail") =>
        /\ emitted = <<MessageFailed(op.id, SendError)>>
        /\ Has(queue, op.id) =>
              /\ Get(queue, op.id).status = "failed"
              /\ Get(queue, op.id).attempts \in 1..(maxRetries - 1)
              /\ Get(queue, op.id).lastAttempt = Some(now)
        /\ op.removed \subseteq {op.id}
        /\ ~op.done =>
              \E r \in 1..Len(replays) :
                 /\ replays[r].idx > 1
                 /\ replays[r].toSend[replays[r].idx - 1] = op.id
                 /\ wire = <<replays[r].toSend[replays[r].idx]>>
        /\ op.done => wire = <<>>

\* C20: a transport.send failure during a replay is never thrown out of the replay:
\* the entry is marked failed (one more attempt, or dropped at maxRetries),
\* message:failed is emitted for it, also when that failure drops it, and the replay
\* goes on with the remaining entries of its snapshot.
C20_ReplayFailureHandled ==
    /\ []C20_FailureMarked
    /\ [][(op'.name = "replaySettled" /\ op'.outcome = "fail") =>
             /\ (Has(queue, op'.id) /\ Get(queue, op'.id).attempts < maxRetries - 1) =>
                   /\ Has(queue', op'.id)
                   /\ Get(queue', op'.id).attempts = Get(queue, op'.id).attempts + 1
             /\ (Has(queue, op'.id) /\ Get(queue, op'.id).attempts >= maxRetries - 1) =>
                   ~Has(queue', op'.id)
             /\ ~op'.done => Len(replays') = Len(replays)]_vars

\* a send has just failed in a replay for the third time: the entry is dropped,
\* message:failed is emitted, and the replay sends its next entry
C20_Witness ==
    /\ op.name = "replaySettled" /\ op.outcome = "fail"
    /\ op.removed = {op.id} /\ ~op.done
    /\ emitted = <<MessageFailed(op.id, SendError)>>
    /\ wire # <<>>

\* C32 as stated: if the transport is connected from some point on, an entry
\* that has failed and is due for a retry is sent again, or at least leaves
\* the queue, without a call by the application
C32_FailedRetried ==
    (<>[]isConnected) =>
        \A id \in RetryIds :
            (Has(queue, id) /\ IsRetryable(Get(queue, id), now))
                ~> (id \in Range(wire) \/ ~Has(queue, id))

\* the transport is connected, an entry is due for a retry, and nothing is
\* running that would send it: no replay, no call of sendMessage in progress
C32_Stuck ==
    /\ isConnected /\ replays = <<>>
    /\ \A id \in RetryIds : calls[id] \notin {"stored", "awaiting"}
    /\ \E id \in RetryIds : Has(queue, id) /\ IsRetryable(Get(queue, id), now)
    /\ now = StartTime + MaxRetryTicks * TickMs

\* the steps of ChatSDK that call the queue, and the envelopes for which the
\* step that ran last has emitted message:sent or message:failed
CallsQueue ==
    \/ op.name \in {"sendMessage", "replaySettled"}
    \/ op.name = "sendSettled" /\ op.outcome = "fail"

Reported ==
    {emitted[i].id : i \in {j \in 1..Len(emitted) :
                               emitted[j].type \in {"message:sent", "message:failed"}}}

\* C38 as stated: an envelope leaves the queue only in a step that emits
\* message:sent or message:failed for it
C38_RemovedWithEvent == CallsQueue => op.removed \subseteq Reported

\* sendMessage on a disconnected transport with a full queue: the oldest
\* envelope is gone and nothing was emitted
C38_SilentEviction ==
    /\ op.name = "sendMessage" /\ ~op.connected
    /\ Cardinality(op.removed) = 1 /\ op.id \notin op.removed
    /\ emitted = <<>> /\ Len(queue) = maxSize

-----------------------------------------------------------------------------
(* Claims about WebSocketClient, checked under SpecWS                       *)

NoTimeoutPending == \A i \in 1..Len(sockets) : ~sockets[i].timeout

\* C9: after the connection drops from connected with auto-reconnect enabled, when
\* 5 automatic reconnect attempts in a row have failed the state is failed, the
\* terminal error has been emitted by the close that failed the fifth, and no
\* reconnect timer is pending and no socket is left to schedule one, as long as
\* neither connect() nor reconnect() (nor disconnect()) is called.
C9_FailedAfterFiveReconnects ==
    (streak.since = "drop" /\ streak.fails >= RECONNECT_MAX_ATTEMPTS) =>
        /\ streak.fails = RECONNECT_MAX_ATTEMPTS
        /\ connectionState = "failed"
        /\ ~TimerPending
        /\ LiveSockets = {} /\ NoTimeoutPending
        /\ op.name = "close" =>
              /\ Len(emitted) >= 2
              /\ emitted[Len(emitted)] = ErrorEvent("Max reconnection attempts exceeded")
              /\ emitted[Len(emitted) - 1] = StateEvent("failed")

\* the fifth automatic reconnect attempt after a drop has just failed
C9_Witness ==
    /\ streak = [since |-> "drop", fails |-> RECONNECT_MAX_ATTEMPTS]
    /\ op.name = "close" /\ connectionState = "failed"
    /\ reconnectAttempts = RECONNECT_MAX_ATTEMPTS

\* C10 as stated: starting from disconnected with the attempt counter at 0, after
\* connect() and 5 connection failures in a row the connection state is failed.
C10_FailedAfterFiveFailures ==
    (streak.since = "connect" /\ streak.fails = RECONNECT_MAX_ATTEMPTS) =>
        connectionState = "failed"

\* C10 as amended: starting from disconnected with the attempt counter at 0, after
\* connect() and 6 connection failures in a row (the first attempt and the 5
\* automatic reconnect attempts) the state is failed; after fewer it is not, and
\* after 5 a fifth reconnect attempt is scheduled or under way.
C10_FailedAfterSixFailures ==
    streak.since = "connect" =>
        /\ streak.fails <= RECONNECT_MAX_ATTEMPTS + 1
        /\ streak.fails = RECONNECT_MAX_ATTEMPTS + 1 =>
              connectionState = "failed" /\ ~TimerPending /\ LiveSockets = {}
        /\ streak.fails <= RECONNECT_MAX_ATTEMPTS => connectionState # "failed"
        /\ streak.fails = RECONNECT_MAX_ATTEMPTS =>
              /\ connectionState \in {"reconnecting", "connecting"}
              /\ reconnectAttempts = RECONNECT_MAX_ATTEMPTS

\* the sixth attempt in a row since connect() has just failed
C10_Witness ==
    /\ streak = [since |-> "connect", fails |-> RECONNECT_MAX_ATTEMPTS + 1]
    /\ op.name = "close" /\ connectionState = "failed"

\* C11: disconnect() called while the state is reconnecting cancels the pending
\* reconnect timer and leaves the state disconnected (auto-reconnect off); the
\* cancelled timer never starts a connection attempt: the reconnect timer only ever
\* fires while auto-reconnect is on, and so never after a disconnect() that has not
\* been followed by connect().
C11_DisconnectCancelsReconnect ==
    /\ []((op.name = "disconnect" /\ op.from = "reconnecting") =>
            /\ connectionState = "disconnected"
            /\ reconnectTimer = None
            /\ ~shouldReconnect)
    /\ [](~shouldReconnect => ~TimerPending)
    /\ [][op'.name = "reconnectTimer" => (shouldReconnect /\ op.name # "disconnect")]_vars

\* disconnect() has just been called in state reconnecting, with the timer pending
C11_Witness ==
    /\ op.name = "disconnect" /\ op.from = "reconnecting" /\ op.hadTimer
    /\ reconnectAttempts > 0

\* this.ws is null and auto-reconnect is off exactly from a disconnect() until
\* connect() is called or a reconnect() installs its socket
ManuallyDisconnected == ws = None /\ ~shouldReconnect

\* C12, the timers: after a manual disconnect() no timer of the manager (reconnect
\* backoff, heartbeat, connect timeout) remains pending.
C12_NoTimerAfterDisconnect ==
    ManuallyDisconnected => (~TimerPending /\ ~heartbeatTimer /\ NoTimeoutPending)

\* C12, the state: after a manual disconnect() the state stays disconnected until
\* connect() or reconnect() is called.
C12_StaysDisconnected ==
    ManuallyDisconnected => connectionState = "disconnected"

\* C12 as stated: after a manual disconnect(), whatever state it was called in, no
\* timer of the manager remains pending and a socket-close event that arrives
\* afterwards never schedules a reconnect: the state stays disconnected until
\* connect() or reconnect() is called.
C12_ManualDisconnect ==
    /\ op.name = "disconnect" => ManuallyDisconnected
    /\ C12_NoTimerAfterDisconnect
    /\ C12_StaysDisconnected

\* C12, what the code does keep: after a manual disconnect() no reconnect is
\* scheduled, whatever event arrives.
C12_NoReconnectScheduled ==
    /\ [](op.name = "disconnect" => ManuallyDisconnected)
    /\ [](ManuallyDisconnected => reconnectTimer = None)
    /\ [][(ManuallyDisconnected /\ op'.name \notin {"connect", "reconnect", "reconnectResume"})
             => ManuallyDisconnected']_vars

\* a socket orphaned by an earlier connect() has opened after disconnect(): the
\* state is connected and the heartbeat runs, though no socket is installed
C12_OrphanOpened ==
    /\ ManuallyDisconnected /\ op.name = "open"
    /\ connectionState = "connected" /\ heartbeatTimer

\* the connect timeout that disconnect() left armed has fired during the next
\* attempt: it found the state connecting and closed the new socket
C12_StaleTimeoutFired ==
    /\ op.name = "timeout" /\ op.from = "connecting" /\ ~op.own
    /\ emitted = <<ErrorEvent("Connection timeout")>>

\* C13: send(envelope) writes to the socket only when the state is connected; in
\* every other state it throws the not-connected error at once and nothing is
\* written to the socket. (A send that throws never writes anything.)
C13_SendOnlyConnected ==
    op.name = "send" =>
        /\ wire # <<>> => (op.state = "connected" /\ ~op.threw /\ wire = <<"message">>)
        /\ op.state # "connected" =>
              /\ op.threw /\ op.error = "WebSocket not connected"
              /\ wire = <<>>
        /\ op.threw => wire = <<>>
        /\ connectionState = op.state

\* send() has just thrown in a state that is not connected, although the socket
\* installed in the client is open
C13_Witness ==
    /\ op.name = "send" /\ op.threw /\ op.state \in {"disconnected", "reconnecting"}
    /\ ws # None /\ sockets[ws[1]].rs = "open"

\* the frame of the last step reached the message handler
Forwarded ==
    /\ MessageEvent \in Range(emitted)
    /\ MessageReceived \in Range(emitted)
    /\ StoreCreate \in Range(emitted)

\* C14 as stated: a frame of type pong is consumed and never reaches the message
\* handler (no message:received, nothing written to the message store); every other
\* parseable frame is forwarded to it.
C14_AllParseableForwarded ==
    op.name = "message" =>
        /\ op.frame = "pong" => emitted = <<>>
        /\ (Parses(op.frame) /\ op.frame # "pong") => Forwarded

\* C14 as amended: a pong is consumed without any effect; every other frame that
\* parses to a value other than null is forwarded to the message handler
\* (message:received is emitted, the message is given to the message store); a frame
\* that does not parse, or parses to null, is not forwarded but reported as an error.
C14_PongConsumed ==
    op.name = "message" =>
        /\ op.frame = "pong" => emitted = <<>>
        /\ (Parses(op.frame) /\ HasType(op.frame) /\ op.frame # "pong") =>
              emitted = <<MessageEvent, MessageReceived, StoreCreate>>
        /\ (~Parses(op.frame) \/ ~HasType(op.frame)) =>
              emitted = <<ErrorEvent("Failed to parse message")>>
        /\ wire = <<>>

\* a pong has just arrived on the socket of a connected client
C14_Witness ==
    /\ op.name = "message" /\ op.frame = "pong"
    /\ connectionState = "connected" /\ ws # None /\ sockets[ws[1]].rs = "open"

\* C15 as stated: reconnect() with a user id set, run to its end with no other call
\* in between, leaves the connection state, the attempt counter, the auto-reconnect
\* flag and the timers as disconnect() followed by connect(currentUserId) would have.
C15_ReconnectIsDisconnectConnect ==
    (op.name = "reconnectResume" /\ ~op.threw /\ op.expected # None) =>
        ViewOf(Client) = op.expected[1]

\* C15, what reconnect() does leave: state connecting, counter 0, no timer, and
\* auto-reconnect off.
C15_ReconnectLeaves ==
    (op.name = "reconnectResume" /\ ~op.threw /\ op.expected # None) =>
        /\ ViewOf(Client) = [op.expected[1] EXCEPT !.shouldReconnect = FALSE,
                                                   !.reconnectAttempts = 0]
        /\ op.expected[1].shouldReconnect
        /\ ~shouldReconnect /\ connectionState = "connecting"

\* the socket installed by reconnect() had opened and has just closed unexpectedly:
\* the client is left disconnected with no reconnect scheduled
C15_DropNotRecovered ==
    /\ op.name = "close" /\ op.opened
    /\ ws # None /\ sockets[ws[1]].rs = "free" /\ LiveSockets = {}
    /\ ~shouldReconnect /\ reconnectAttempts = 0
    /\ connectionState = "disconnected" /\ ~TimerPending

\* C16: when a socket closes while the state is connected (or any state but
\* disconnected) with auto-reconnect on and fewer than 5 attempts made, the state
\* becomes reconnecting, the attempt counter is incremented to n, and the one
\* reconnect timer is set to min(1000 * 2^(n-1), 30000) ms plus a jitter in
\* [0, 1000); the base delays for n = 1..5 are 1000, 2000, 4000, 8000, 16000 and
\* never decrease.
C16_BackoffDelay ==
    /\ (/\ op.name = "close" /\ op.from # "disconnected"
        /\ op.auto /\ op.before < RECONNECT_MAX_ATTEMPTS) =>
          /\ connectionState = "reconnecting"
          /\ reconnectAttempts = op.before + 1
          /\ TimerPending
          /\ reconnectTimer[1].delay - op.jitter =
                Min(1000 * Pow2(reconnectAttempts - 1), 30000)
          /\ op.jitter \in 0..999
          /\ emitted = <<StateEvent("disconnected"), StateEvent("reconnecting")>>
    /\ <<ReconnectDelay(1), ReconnectDelay(2), ReconnectDelay(3), ReconnectDelay(4),
         ReconnectDelay(5)>> = <<1000, 2000, 4000, 8000, 16000>>
    /\ \A n \in 1..(RECONNECT_MAX_ATTEMPTS - 1) : ReconnectDelay(n) <= ReconnectDelay(n + 1)

\* the socket of a connected client has just closed: reconnect 1 is scheduled
C16_Witness ==
    /\ op.name = "close" /\ op.from = "connected" /\ op.auto /\ op.opened
    /\ connectionState = "reconnecting" /\ reconnectAttempts = 1
    /\ reconnectTimer = Some([delay |-> 1999, fired |-> FALSE])

\* the fourth attempt in a row has just failed: reconnect 5 is scheduled
C16_FifthDelay ==
    /\ op.name = "close" /\ op.before = 4 /\ reconnectAttempts = 5
    /\ reconnectTimer = Some([delay |-> 16000, fired |-> FALSE])

\* C17: when the transport opens the state becomes connected, that
\* socket's connect timeout is cancelled, the counter is reset to 0 and the
\* heartbeat is started; so in every reachable state with state connected the
\* counter is 0, and the counter is always within 0..5.
C17_ConnectedCounterZero ==
    /\ op.name = "open" =>
          /\ connectionState = "connected" /\ reconnectAttempts = 0 /\ heartbeatTimer
          /\ ~sockets[op.socket].timeout
          /\ op.from = "connecting" => emitted = <<StateEvent("connected")>>
    /\ connectionState = "connected" => reconnectAttempts = 0
    /\ reconnectAttempts \in 0..RECONNECT_MAX_ATTEMPTS

\* a socket has just opened after failed attempts: the counter is back at 0
C17_Witness ==
    /\ op.name = "open" /\ op.from = "connecting" /\ op.before > 1
    /\ connectionState = "connected" /\ ws = Some(op.socket)
    /\ reconnectAttempts = 0 /\ heartbeatTimer
    /\ ws # None /\ sockets[ws[1]].rs = "open" /\ ~sockets[ws[1]].timeout

C18_FailedAttemptReported ==
    /\ (op.name = "timeout" /\ op.from = "connecting") =>
          /\ emitted = <<ErrorEvent("Connection timeout")>>
          /\ sockets[ws[1]].rs = "closing"
          /\ ~sockets[op.socket].timeout
          /\ connectionState = "connecting"
    /\ (op.name = "error" /\ op.from = "connecting") =>
          /\ emitted = <<ErrorEvent("WebSocket error")>>
          /\ op.closed = {}
          /\ sockets[op.socket].rs = "closing" /\ ~sockets[op.socket].timeout
          /\ connectionState = "connecting"
    /\ connectionState = "connecting" =>
          ws # None /\ sockets[ws[1]].rs \in {"connecting", "closing"}

C18_TimeoutWitness ==
    /\ op.name = "timeout" /\ op.from = "connecting" /\ op.own
    /\ op.closed = {op.socket}

\* the two shapes of a queue entry: never attempted, or failed below the ceiling
NeverAttempted(e) ==
    /\ e.status = "pending" /\ e.attempts = 0
    /\ e.lastAttempt = None /\ e.error = None

FailedBelowCeiling(e) ==
    /\ e.status = "failed" /\ 1 <= e.attempts /\ e.attempts < maxRetries
    /\ e.lastAttempt # None /\ e.error # None

\* C34: every entry of the queue is pending with no attempt made and none
\* recorded, or failed with 1 <= attempts < maxRetries and its last attempt
\* and error recorded; no entry has the status sent; getPendingMessages
\* returns exactly the entries with attempts = 0
C34_EntryShapes ==
    /\ \A i \in 1..Len(queue) : NeverAttempted(queue[i]) \/ FailedBelowCeiling(queue[i])
    /\ \A i \in 1..Len(queue) : queue[i].status # "sent"
    /\ getPendingMessages(queue) = SelectSeq(queue, LAMBDA e : e.attempts = 0)

\* a markFailed has left an entry one attempt below the ceiling, next to an
\* entry never attempted
C34_Witness ==
    /\ op.name = "markFailed" /\ Has(queue, op.id)
    /\ Get(queue, op.id).attempts = maxRetries - 1
    /\ \E i \in 1..Len(queue) : NeverAttempted(queue[i])

\* the sockets that are open or opening
OpenOrOpening == {i \in 1..Len(sockets) : sockets[i].rs \in {"connecting", "open"}}

\* C35 as stated: the client has at most one socket open or opening at any time
C35_OneSocket == Cardinality(OpenOrOpening) <= 1

\* a reconnect timer left pending by connect() fires after the socket of that
\* connect() has opened: doConnect creates a second socket next to the open one
C35_TimerSecondSocket ==
    /\ op.name = "reconnectTimer"
    /\ \E i \in OpenOrOpening, j \in OpenOrOpening :
          /\ sockets[i].rs = "open" /\ sockets[j].rs = "connecting"
          /\ ws = Some(j)

\* connect() on a connected client has created a second socket next to the open one
C35_ConnectSecondSocket ==
    /\ op.name = "connect"
    /\ \E i \in OpenOrOpening, j \in OpenOrOpening :
          /\ sockets[i].rs = "open" /\ sockets[j].rs = "connecting"
          /\ ws = Some(j)

\* C36 as stated: a close event of a socket that is no longer the client's
\* socket, delivered while the client has a newer one, changes neither the
\* connection state, nor the attempt counter, nor the timers
C36_StaleCloseIgnored ==
    [][\A s \in 1..MaxSockets, jitter \in Jitters :
          (SocketClose(s, jitter) /\ ws # None /\ ws # Some(s)) =>
              UNCHANGED <<connectionState, reconnectAttempts, reconnectTimer,
                          heartbeatTimer>>]_vars

\* the close event of a replaced socket has put the client into reconnecting,
\* with an attempt counted and a timer armed, while its new socket is opening
C36_StaleCloseReschedules ==
    /\ op.name = "close" /\ op.from = "connecting"
    /\ ws # None /\ sockets[ws[1]].rs = "connecting"
    /\ connectionState = "reconnecting" /\ TimerPending
    /\ reconnectAttempts = op.before + 1

\* the close event of a replaced socket has stopped the heartbeat of a client
\* whose new socket is open
C36_StaleCloseStopsHeartbeat ==
    /\ op.name = "close" /\ op.from = "connected"
    /\ ws # None /\ sockets[ws[1]].rs = "open"
    /\ connectionState = "reconnecting" /\ ~heartbeatTimer

-----------------------------------------------------------------------------
(* Claims about the MessageQueue, checked under SpecQ                       *)

\* the order of the entries of q that are also in r is the same in both
SameOrder(q, r) ==
    \A a, b \in Ids(q) \cap Ids(r) :
        (IndexOf(q, a) < IndexOf(q, b)) <=> (IndexOf(r, a) < IndexOf(r, b))

NoDuplicateKeys(q) == Cardinality(Ids(q)) = Len(q)

\* C4: after any sequence of enqueue, markSent, markFailed, remove and clear on a
\* queue with maxSize >= 1, the number of entries never exceeds maxSize.
C4_SizeBounded == maxSize >= 1 => Len(queue) <= maxSize

\* an enqueue that found the queue full has just evicted an entry
C4_Witness ==
    /\ op.name = "enqueue" /\ op.removed # {}
    /\ Len(queue) = maxSize

\* C5: enqueue of a new envelope on a queue that holds maxSize entries removes
\* exactly one entry, the first of the map's insertion order, and then inserts the
\* new envelope last; below capacity it removes nothing and inserts the envelope last.
C5_EvictsOldest ==
    [][\A id \in MessageIds :
          (Enqueue(id) /\ ~Has(queue, id)) =>
              /\ Len(queue) = maxSize =>
                    /\ queue' = Append(Tail(queue), NewEntry(id))
                    /\ Ids(queue) \ Ids(queue') = {queue[1].id}
              /\ Len(queue) < maxSize => queue' = Append(queue, NewEntry(id))]_vars

\* the last call was an enqueue on a full queue, and it evicted one entry
C5_Witness ==
    /\ op.name = "enqueue" /\ Cardinality(op.removed) = 1
    /\ op.id \notin op.removed
    /\ Len(queue) = maxSize /\ queue[Len(queue)].id = op.id

\* C6: markFailed on a queued entry increments attempts by one and records the time
\* and the error; the call that makes attempts reach maxRetries removes the entry;
\* an entry starts at attempts 0, and every entry in the queue has attempts < maxRetries.
C6_AttemptsBelowMax == \A i \in 1..Len(queue) : queue[i].attempts < maxRetries

C6_MarkFailedStep ==
    \A id \in MessageIds, err \in Errors :
        (MarkFailed(id, err) /\ Has(queue, id)) =>
            LET e == Get(queue, id) IN
            /\ \A o \in Ids(queue) \ {id} : Has(queue', o) /\ Get(queue', o) = Get(queue, o)
            /\ IF e.attempts + 1 = maxRetries
               THEN ~Has(queue', id)
               ELSE /\ Has(queue', id)
                    /\ Get(queue', id).attempts = e.attempts + 1
                    /\ Get(queue', id).lastAttempt = Some(now)
                    /\ Get(queue', id).error = Some(err)
                    /\ Get(queue', id).status = "failed"

C6_EnqueueStep ==
    \A id \in MessageIds : Enqueue(id) => Get(queue', id).attempts = 0

C6_MarkFailed ==
    /\ []C6_AttemptsBelowMax
    /\ [][C6_MarkFailedStep /\ C6_EnqueueStep]_vars

\* the last call was the markFailed that dropped its entry
C6_Witness ==
    /\ op.name = "markFailed" /\ op.removed = {op.id}
    /\ Len(queue) > 0

-----------------------------------------------------------------------------
(* Claims about ChatSDK's calls and handlers, checked under SpecApp          *)

\* the fault the step that ran last caught, and the error it threw to its caller
CaughtFault ==
    CASE op.name \in {"sendMessageEnter", "setCurrentUser", "onMessage", "onError"} -> op.caught
      [] op.name \in {"sendSettled", "replaySettled"} ->
            IF op.outcome = "fail" THEN Some(SendError) ELSE None
      [] OTHER -> None
Thrown ==
    IF op.name \in {"sendMessageEnter", "setCurrentUser", "onMessage", "onError"}
    THEN op.threw ELSE None
FaultEvents ==
    {i \in 1..Len(emitted) : emitted[i].type \in {"error", "message:failed"}}

\* C21: every fault the orchestrator catches is thrown again to the caller or
\* emitted as an error or message:failed event, the rejected store of an
\* incoming message included
C21_EveryFaultSurfaces ==
    CaughtFault # None => (Thrown # None \/ FaultEvents # {})

\* the catch sites of sendMessage, setCurrentUser and the replay surface the
\* fault they catch
C21_CallFaultsSurface ==
    (CaughtFault # None /\ op.name # "onMessage") => (Thrown # None \/ FaultEvents # {})

\* a rejected store of an incoming message leaves no trace but the log
C21_StorageFaultSwallowed ==
    /\ op.name = "onMessage" /\ op.caught = Some(StorageFault)
    /\ op.threw = None /\ FaultEvents = {}
    /\ op.id \notin messageStore

C21_CallFaultWitness ==
    /\ op.name = "sendMessageEnter" /\ op.caught = Some(StorageFault)
    /\ op.threw = Some(StorageFault) /\ emitted = <<SdkErrorEvent(StorageFault)>>

\* C22: sendMessage with no current user fails with a SessionError and has no
\* effect: nothing is encrypted, stored, sent or enqueued, nothing is emitted
C22_NoUserNoEffect ==
    [][(op'.name = "sendMessageEnter" /\ currentUser = None) =>
          /\ op'.threw = Some(SessionError)
          /\ ~op'.encrypted
          /\ UNCHANGED <<messageStore, queue, calls, replays>>
          /\ wire' = <<>> /\ emitted' = <<>>]_vars

\* a valid message to a connected transport, refused for the missing user
C22_Witness ==
    /\ op.name = "sendMessageEnter" /\ op.user = None
    /\ op.plaintext = Some(1) /\ isConnected
    /\ op.threw = Some(SessionError) /\ messageStore = {} /\ queue = <<>>

\* the plaintexts the claim calls invalid: the empty string and the strings of
\* more than 10000 characters
InvalidPlaintext(p) == IsString(p) /\ (p[1] = 0 \/ p[1] > MAX_MESSAGE_LENGTH)

\* C23 as stated: sendMessage with an invalid plaintext fails with a
\* ValidationError before any other step, whatever the state of the ChatSDK
C23_InvalidIsValidationError ==
    [][(op'.name = "sendMessageEnter" /\ InvalidPlaintext(op'.plaintext)) =>
          /\ op'.threw = Some(ValidationError)
          /\ ~op'.encrypted
          /\ UNCHANGED <<messageStore, queue, calls, replays>>
          /\ wire' = <<>>]_vars

\* C23: with a current user set, sendMessage with an invalid plaintext fails
\* with a ValidationError before anything is encrypted, stored, sent, enqueued
\* or emitted; with no current user it fails with the SessionError instead,
\* with no effect either
C23_InvalidRefused ==
    [][(op'.name = "sendMessageEnter" /\ InvalidPlaintext(op'.plaintext)) =>
          /\ op'.threw = IF currentUser = None THEN Some(SessionError)
                         ELSE Some(ValidationError)
          /\ ~op'.encrypted
          /\ UNCHANGED <<messageStore, queue, calls, replays>>
          /\ wire' = <<>> /\ emitted' = <<>>]_vars

\* a message one character too long to a connected transport, with a user set
C23_Witness ==
    /\ op.name = "sendMessageEnter" /\ op.user # None
    /\ op.plaintext = Some(MAX_MESSAGE_LENGTH + 1) /\ isConnected
    /\ op.threw = Some(ValidationError) /\ op.store = messageStore /\ op.queue = queue

\* an empty message refused for the missing user, not for its content
C23_SessionErrorFirst ==
    /\ op.name = "sendMessageEnter" /\ op.user = None
    /\ op.plaintext = Some(0) /\ op.threw = Some(SessionError)

\* C33: in sendMessage the envelope is persisted before it is sent or
\* enqueued: every envelope handed to transport.send or held by the queue is
\* in the message store, and a call whose messageStore.create is rejected
\* throws, with the envelope not stored, not sent and not enqueued
C33_StoredBeforeSent ==
    /\ [](\A id \in Ids(queue) \cup Range(wire) : id \in messageStore)
    /\ [][(op'.name = "sendMessageEnter" /\ op'.caught = Some(StorageFault)) =>
            /\ op'.threw = Some(StorageFault)
            /\ UNCHANGED <<messageStore, queue, calls, replays>>
            /\ wire' = <<>>]_vars
    /\ [][(op'.name = "sendMessage") => op'.id \in messageStore]_vars

\* an envelope that was stored is sent to a connected transport, after a call
\* for the other envelope has failed at the store
C33_Witness ==
    /\ op.name = "sendMessage" /\ op.connected /\ wire = <<op.id>>
    /\ op.id \in messageStore
    /\ \E other \in RetryIds : other \notin messageStore /\ calls[other] = "none"

\* a call whose store was rejected: the envelope is nowhere
C33_StoreRejected ==
    /\ op.name = "sendMessageEnter" /\ op.caught = Some(StorageFault)
    /\ op.threw = Some(StorageFault) /\ isConnected
    /\ op.id \notin messageStore /\ ~Has(queue, op.id) /\ wire = <<>>

-----------------------------------------------------------------------------
(* Claims about the functions of crypto/, checked under SpecE2E             *)

\* C28: deriveSharedSecret gives both sides of a pair of identity key pairs the
\* same key: deriving with a's private key and b's public key equals deriving
\* with b's private key and a's public key
C28_SharedSecretSymmetric ==
    op.name = "deriveSharedSecret" => op.ab = op.ba

\* two different key pairs whose public keys are stored in descending order
C28_Witness ==
    /\ op.name = "deriveSharedSecret" /\ op.a # op.b
    /\ BufferCompare(base64ToBuffer(op.a.publicKey), base64ToBuffer(op.b.publicKey)) > 0
    /\ op.ab = op.ba

\* C29 as stated: for every plaintext, the empty string included, and every
\* key, decryptMessage of what encryptMessage returned gives the plaintext back
C29_RoundTrip ==
    op.name = "encryptDecrypt" => op.decrypted = Some(op.plaintext)

\* C29: the round trip gives back every plaintext that is well-formed Unicode,
\* the empty string included; of any other plaintext it gives back the
\* well-formed copy, each surrogate without its other half replaced by U+FFFD
C29_RoundTripWellFormed ==
    op.name = "encryptDecrypt" =>
        /\ op.decrypted = Some(toWellFormed(op.plaintext))
        /\ WellFormed(op.plaintext) => op.decrypted = Some(op.plaintext)

\* the empty string, and a surrogate pair, came back
C29_Witness ==
    /\ op.name = "encryptDecrypt" /\ op.plaintext = <<55357, 56832>>
    /\ op.decrypted = Some(op.plaintext)
C29_EmptyWitness ==
    /\ op.name = "encryptDecrypt" /\ op.plaintext = <<>>
    /\ op.decrypted = Some(<<>>)
    /\ Len(base64ToBuffer(op.encrypted.ciphertext)) = TAG_LENGTH

\* half a surrogate pair came back as U+FFFD
C29_LoneSurrogate ==
    /\ op.name = "encryptDecrypt" /\ op.plaintext = <<55357>>
    /\ op.decrypted = Some(<<Replacement>>)

\* C30 as stated: decryptMessage of a tampered ciphertext, or with a key that
\* is not the one used, always fails and never returns a plaintext
C30_TamperedAlwaysFails ==
    op.name = "decryptTampered" => op.decrypted = None

\* what is left of an encrypted buffer cut down to the first bytes of the tag of
\* an empty plaintext, few enough for the rest to be taken as the whole tag
TagCutShort(bytes, original) ==
    /\ Len(original) = TAG_LENGTH
    /\ Len(bytes) \in TagLengths
    /\ bytes = SubSeq(original, 1, Len(bytes))

\* C30: decryptMessage never returns a plaintext other than the one encrypted.
\* It fails with any other key, and with any ciphertext whose decoded bytes
\* differ from those encrypted, but for the tag of an empty plaintext cut down to
\* 4, 8 or 12 to 15 bytes; a changed text that decodes to the same bytes
\* decrypts to the plaintext encrypted
C30_TamperedNeverOther ==
    op.name = "decryptTampered" =>
        LET bytes == base64ToBuffer(op.ciphertext)
            original == base64ToBuffer(op.encrypted.ciphertext)
        IN  /\ op.decrypted \in {None, Some(toWellFormed(op.plaintext))}
            /\ op.with # op.secret => op.decrypted = None
            /\ (bytes # original /\ ~TagCutShort(bytes, original)) => op.decrypted = None
            /\ (op.with = op.secret /\ bytes = original) => op.decrypted # None

\* a byte of the ciphertext was changed, and the decryption failed
C30_Witness ==
    /\ op.name = "decryptTampered" /\ op.tamper = [kind |-> "flip", at |-> 1]
    /\ op.plaintext = <<97, 233>> /\ op.with = op.secret
    /\ op.decrypted = None

\* another key, and the decryption failed
C30_OtherKeyWitness ==
    /\ op.name = "decryptTampered" /\ op.tamper = NoTamper /\ op.with # op.secret
    /\ op.plaintext = <<97, 233>> /\ op.decrypted = None

\* a character of the text was changed in bits that no byte takes, and the
\* decryption returned the plaintext
C30_SlackBitsIgnored ==
    /\ op.name = "decryptTampered" /\ op.tamper.kind = "flip"
    /\ op.ciphertext # op.encrypted.ciphertext
    /\ op.plaintext = <<97>> /\ op.decrypted = Some(<<97>>)

\* the tag of an empty plaintext was cut short, and the decryption returned the
\* empty plaintext
C30_ShortTagAccepted ==
    /\ op.name = "decryptTampered" /\ op.tamper.kind = "cut"
    /\ Len(base64ToBuffer(op.ciphertext)) < TAG_LENGTH
    /\ op.plaintext = <<>> /\ op.decrypted = Some(<<>>)

-----------------------------------------------------------------------------
(* Claims about ChatSession, GroupSession and the calls of ChatSDK that use *)
(* them, checked under SpecCrypto                                           *)

\* the step that ran last was an encrypt or a decrypt of a ChatSession whose
\* shared key had been computed before
KeyedBefore ==
    /\ op.name \in {"encrypt", "decrypt"}
    /\ op.before.kind = "chat" /\ op.before.sharedSecret # None

\* C24: once the shared key of a ChatSession has been computed, no later call
\* of encrypt or decrypt, with any sender id or any identity argument, changes it
C24_SharedKeyFixed ==
    KeyedBefore => session.sharedSecret = op.before.sharedSecret

\* the calls made for one of the two users of the session leave the key alone
C24_MembersKeepKey ==
    (KeyedBefore /\ op.name = "decrypt" /\ op.user.id \in {session.userA.id, session.userB.id})
        => session.sharedSecret = op.before.sharedSecret

\* decrypt for a user who is neither userA nor userB replaced the key of the
\* session by the key that user shares with userA
C24_OutsiderRekeyed ==
    /\ KeyedBefore /\ op.name = "decrypt"
    /\ op.user.id \notin {session.userA.id, session.userB.id}
    /\ session.sharedSecret # op.before.sharedSecret
    /\ session.sharedSecret =
           Some(deriveSharedSecret(KeyPairOf(op.user), session.userA.publicKey))
    /\ op.decrypted = None

\* x comes before y in the order of their code units, a proper prefix first
LexLess(x, y) ==
    \E k \in 1..(Len(x) + 1) :
        /\ \A i \in 1..(k - 1) : i <= Len(y) /\ x[i] = y[i]
        /\ k <= Len(y)
        /\ (k <= Len(x) => x[k] < y[k])

\* C25: the id of a pairwise session does not depend on the order of the two
\* users: it is the two user ids in lexicographic order, joined by a dash,
\* which is also the id startSession gives for the users swapped
C25_SessionIdSorted ==
    op.name = "startSession" =>
        /\ session.id = op.id
        /\ \E lo \in {op.userA.id, op.userB.id}, hi \in {op.userA.id, op.userB.id} :
              /\ {lo, hi} = {op.userA.id, op.userB.id}
              /\ ~LexLess(hi, lo)
              /\ op.id = lo \o <<Dash>> \o hi
        /\ op.id = initialize(NewChat(SessionId(op.userB, op.userA), op.userB, op.userA)).id

\* startSession(b, ab) gave "ab-b"
C25_Witness ==
    /\ op.name = "startSession"
    /\ op.userA.id = <<98>> /\ op.userB.id = <<97, 98>>
    /\ op.id = <<97, 98, 45, 98>>

\* C26: the envelope of ChatSession.encrypt has no groupId and, for a sender
\* who is one of the two users, the other user's id as receiverId; the envelope
\* of GroupSession.encrypt has the group's id as groupId and no receiverId; so
\* exactly one of receiverId and groupId is set
C26_EnvelopeAddressed ==
    op.name = "encrypt" =>
        LET m == op.message IN
        /\ session.kind = "chat" =>
              /\ m.groupId = None
              /\ m.senderId = session.userA.id => m.receiverId = Some(session.userB.id)
              /\ m.senderId = session.userB.id => m.receiverId = Some(session.userA.id)
        /\ session.kind = "group" =>
              /\ m.groupId = Some(session.group.id)
              /\ m.receiverId = None
        /\ (m.receiverId = None) # (m.groupId = None)

\* userB of a session encrypted, and the envelope is addressed to userA
C26_Witness ==
    /\ op.name = "encrypt" /\ session.kind = "chat"
    /\ session.userA.id # session.userB.id
    /\ op.message.senderId = session.userB.id
    /\ op.message.receiverId = Some(session.userA.id) /\ op.message.groupId = None

\* a group session encrypted, and the envelope carries the group's id only
C26_GroupWitness ==
    /\ op.name = "encrypt" /\ session.kind = "group"
    /\ op.message.groupId = Some(<<103, 97>>) /\ op.message.receiverId = None

-----------------------------------------------------------------------------
(* Claims about sendMessage and decryptMessage of ChatSDK, checked under    *)
(* SpecChat                                                                 *)

\* decryptMessage ran last, for a member of the group, on a message that a
\* member of the group sent to the group with sendMessage
GroupOf(id) == CHOOSE g \in Groups : g.id = id
GroupMessageRead ==
    /\ op.name = "decryptMessage" /\ op.via = "sendMessage"
    /\ op.message.groupId # None
    /\ op.message.senderId \in GroupOf(op.message.groupId[1]).members
    /\ op.user.id \in GroupOf(op.message.groupId[1]).members

\* C27 as stated: for every group and every two of its members s and m, a
\* message s sent with sendMessage is decrypted by decryptMessage(message, m) to
\* the original plaintext
C27_GroupRoundTrip ==
    GroupMessageRead => op.decrypted = Some(op.plaintext)

\* C27: for every group of the group store and every two of its members s and
\* m, a message s sent with sendMessage is decrypted by decryptMessage(message,
\* m) to the plaintext with each unpaired surrogate replaced by U+FFFD, which is
\* the original plaintext if that is well-formed Unicode; for a group that is
\* not in the group store decryptMessage fails
C27_StoredGroupRoundTrip ==
    GroupMessageRead =>
        IF GroupOf(op.message.groupId[1]) \in groupStore
        THEN /\ op.decrypted = Some(toWellFormed(op.plaintext))
             /\ WellFormed(op.plaintext) => op.decrypted = Some(op.plaintext)
        ELSE op.decrypted = None /\ emitted # <<>>

\* "b" read the surrogate pair that "a" sent to the group of three
C27_Witness ==
    /\ GroupMessageRead /\ op.message.groupId = Some(<<103, 97>>)
    /\ op.message.senderId = <<97>> /\ op.user.id = <<98>>
    /\ op.plaintext = <<55357, 56832>> /\ op.decrypted = Some(op.plaintext)

\* half a surrogate pair was sent to a group and read as U+FFFD
C27_LoneSurrogate ==
    /\ GroupMessageRead /\ op.plaintext = <<55357>>
    /\ op.decrypted = Some(<<Replacement>>)

\* a message sent through a GroupSession made for a group that is not in the
\* group store cannot be read
C27_GroupNotFound ==
    /\ GroupMessageRead /\ WellFormed(op.plaintext)
    /\ GroupOf(op.message.groupId[1]) \notin groupStore
    /\ op.decrypted = None

-----------------------------------------------------------------------------
(* Claims about the sends of an envelope over its lifetime, checked under   *)
(* SpecOverlap                                                              *)

\* C31 as stated: an envelope is handed to transport.send at most maxRetries
\* times in total, the direct send of sendMessage and every replay counted
C31_SendsBounded ==
    sends # None => \A id \in DOMAIN sends : sends[id] <= maxRetries

\* an entry that has failed twice is sent by two replays at once: the first
\* failure drops it, and the second replay's send was its fourth
C31_FourthSend ==
    /\ op.name = "replaySettled" /\ op.outcome = "fail"
    /\ sends # None /\ sends[op.id] = maxRetries + 1
    /\ op.removed = {} /\ ~Has(queue, op.id)

\* C37 as stated: two invocations of processMessageQueue that overlap pass no
\* envelope to transport.send both
C37_ReplaysDisjoint ==
    \A r1 \in 1..Len(replays), r2 \in 1..Len(replays) :
        r1 # r2 => replays[r1].sent \cap replays[r2].sent = {}

\* the second of two overlapping replays has sent the envelope again, and its
\* send resolves after the first has removed the entry: message:sent is
\* emitted for the envelope a second time
C37_SentTwice ==
    /\ op.name = "replaySettled" /\ op.outcome = "ok"
    /\ op.removed = {} /\ emitted = <<MessageSent(op.id)>>
    /\ sends # None /\ sends[op.id] = 2 /\ calls[op.id] = "queued"

-----------------------------------------------------------------------------
(* Claims about encryptMedia and decryptMedia, checked under SpecMedia      *)

\* the user is a participant of the session: userA or userB of a chat, any
\* user of a group session
Participant(s, user) ==
    s.kind = "chat" => user.id \in {s.userA.id, s.userB.id}

\* C39 as stated: decryptMedia of the envelope encryptMedia returned, by the
\* same session for one of its participants, returns the caption and the
\* media data that were encrypted
C39_MediaRoundTrip ==
    (/\ op.name = "decryptMedia"
     /\ SecretOf(op.before) = op.key /\ Participant(op.before, op.user)) =>
        op.decrypted = Some([text |-> op.plaintext, data |-> op.data])

\* the two IVs encryptMedia drew differ: decryptMedia of a participant throws
C39_MediaLost ==
    /\ op.name = "decryptMedia"
    /\ SecretOf(op.before) = op.key /\ Participant(op.before, op.user)
    /\ op.ivs[1] # op.ivs[2]
    /\ decryptMessage(op.message.ciphertext, op.message.iv, op.key[1]) = Some(op.plaintext)
    /\ op.decrypted = None

\* what the code keeps: decryptMedia returns the caption and the data exactly
\* when the two IVs encryptMedia drew were the same, and throws otherwise
C39_RoundTripIffSameIv ==
    (/\ op.name = "decryptMedia"
     /\ SecretOf(op.before) = op.key /\ Participant(op.before, op.user)) =>
        IF op.ivs[1] = op.ivs[2]
        THEN op.decrypted = Some([text |-> op.plaintext, data |-> op.data])
        ELSE op.decrypted = None

-----------------------------------------------------------------------------
(* Claims about who reads a 1:1 envelope, checked under SpecReaders         *)

\* decryptMessage has run on a 1:1 envelope that sendMessage returned
ReadOneToOne ==
    /\ op.name = "decryptMessage" /\ op.via = "sendMessage"
    /\ op.message.groupId = None

PartyOf(message, user) ==
    user.id = message.senderId \/ Some(user.id) = message.receiverId

\* C40 as stated: decryptMessage of a 1:1 envelope fails for every user who is
\* neither its sender nor its receiver, and returns the plaintext for its
\* sender and for its receiver
C40_OnlyPartiesRead ==
    ReadOneToOne =>
        IF PartyOf(op.message, op.user)
        THEN op.decrypted = Some(op.plaintext)
        ELSE op.decrypted = None

\* the half of C40 about outsiders
C40_OutsiderFails ==
    (ReadOneToOne /\ ~PartyOf(op.message, op.user)) => op.decrypted = None

\* a user who is neither the sender nor the receiver of the envelope has read
\* its plaintext with decryptMessage
C40_OutsiderReads ==
    /\ ReadOneToOne /\ ~PartyOf(op.message, op.user)
    /\ op.decrypted = Some(op.plaintext)
    /\ op.message.senderId # op.message.receiverId[1]

\* the receiver of that envelope cannot read it
C40_ReceiverLockedOut ==
    /\ ReadOneToOne /\ Some(op.user.id) = op.message.receiverId
    /\ op.user.id # op.message.senderId
    /\ WellFormed(op.plaintext) /\ op.decrypted = None

====
